---- MODULE Spec2Model ----
(***************************************************************************)
(* WebiBook analytics backend: identity, engagement counters and visit     *)
(* tracking, modelled from the server variants kept in the repository:     *)
(*   - the MongoDB server (src/unnamed/part_003) behind the auth           *)
(*     middleware (src/config/database.js:32-90, src/middleware/auth.js)   *)
(*   - the dual-backend server (src/unnamed/part_001)                      *)
(*   - the file-backed server (src/server.js:291-754)                      *)
(***************************************************************************)
EXTENDS Integers, Sequences, FiniteSets, TLC

\* ------------------------------------------------------------------------
\* Bounds of the model
\* ------------------------------------------------------------------------
MaxClicks == 1
MaxVisits == 2
MaxReqs == 2
MaxEmails == 3
MaxDocs == 2

\* ------------------------------------------------------------------------
\* Strings that the code transforms are sequences of characters
\* ------------------------------------------------------------------------
LowerChar(c) ==
    CASE c = "A" -> "a"
      [] c = "B" -> "b"
      [] c = "X" -> "x"
      [] OTHER -> c

toLowerCase(s) == [i \in 1..Len(s) |-> LowerChar(s[i])]

RECURSIVE trimStart(_)
trimStart(s) ==
    IF s # <<>> /\ Head(s) = " " THEN trimStart(Tail(s)) ELSE s

RECURSIVE trimEnd(_)
trimEnd(s) ==
    IF s # <<>> /\ s[Len(s)] = " " THEN trimEnd(SubSeq(s, 1, Len(s) - 1)) ELSE s

trim(s) == trimEnd(trimStart(s))

includes(s, c) == \E i \in 1..Len(s) : s[i] = c

\* email.toLowerCase().trim()
cleanEmailOf(email) == trim(toLowerCase(email))

\* a validation that only looks for a missing email
InvalidEmailMissingOnly(email) == email = <<>>

\* !email || !email.includes('@')   (a missing email is the empty string)
InvalidEmail(email) == email = <<>> \/ ~includes(email, "@")

\* request inputs
RawEmails ==
    { <<"a", "@", "x">>, <<"A", "@", "x", " ">>, <<"b", "@", "x">>,
      <<"a", "x">>, <<>> }

SampleEventIds == {"event-1", "event-2", "event-3"}
\* the eventIds of save and unsave requests (event-7 is never in the catalog)
SaveEventIds == {"event-1", "event-7", ""}
\* the eventIds of click requests (event-9 is not in the seeded catalog)
ClickEventIds == {"event-1", "event-9", ""}

\* ------------------------------------------------------------------------
\* State
\* ------------------------------------------------------------------------
VARIABLES
    authModule,   \* which module '../middleware/auth' resolves to
    users,        \* User collection, in insertion order; _id is the index
    events,       \* Event collection, keyed by the unique eventId
    eventClicks,  \* EventClick collection (append-only log)
    last,         \* the last handled request, its response, whether it
                  \* changed a collection, and the request before it when
                  \* that was a successful save
    reqs,         \* the requests in flight at the MongoDB server: where each
                  \* handler stands and the documents it holds
    file,         \* the parsed content of webiBook-data.json
    fileReqs,     \* the requests in flight at the file-backed server: where
                  \* each handler stands and the data object it holds
    connected,    \* mongoose.connection.readyState === 1
    memoryStorage, \* the in-memory fallback of the dual-backend server
    visits,       \* Visit collection (append-only log)
    subscriptions \* EmailSubscription collection, in insertion order

mongoVars == <<authModule, users, events, eventClicks, last, reqs>>
fileVars == <<file, fileReqs>>
dualVars == <<connected, memoryStorage>>
engageVars == <<visits, subscriptions>>
vars == <<authModule, users, events, eventClicks, last, reqs, file, fileReqs,
          connected, memoryStorage, visits, subscriptions>>

\* the collections as one value
DB == [users |-> users, events |-> events, eventClicks |-> eventClicks]

\* ------------------------------------------------------------------------
\* Documents
\* ------------------------------------------------------------------------
NewUser(cleanEmail) ==
    [email |-> cleanEmail, savedEvents |-> <<>>, visitCount |-> 1]

\* eventSchema defaults: savedCount 0, clickCount 0
SampleEvent == [savedCount |-> 0, clickCount |-> 0]

\* User.findOne({ email }) : the _id of the document, 0 when there is none
findOneUser(coll, cleanEmail) ==
    IF \E i \in 1..Len(coll) : coll[i].email = cleanEmail
    THEN CHOOSE i \in 1..Len(coll) : coll[i].email = cleanEmail
    ELSE 0

\* ------------------------------------------------------------------------
\* Credentials
\* ------------------------------------------------------------------------
NoToken == [kind |-> "none", userId |-> 0]
BadToken == [kind |-> "bad", userId |-> 0]

\* jwt.sign({ userId }, secret)
generateToken(userId) == [kind |-> "jwt", userId |-> userId]

\* the credentials a client can present: none, one that does not verify,
\* or one minted by register for an existing user
CredentialsOf(coll) ==
    {NoToken, BadToken} \cup {generateToken(u) : u \in 1..Len(coll)}

Credentials == CredentialsOf(users)

\* verifyToken of the module that loads the User document
\* (status 401 ends the request; otherwise req.user is the document)
verifyTokenDocuments(coll, token) ==
    IF token.kind = "none" THEN [status |-> 401, userId |-> 0, isDoc |-> FALSE]
    ELSE IF token.kind = "bad" THEN [status |-> 401, userId |-> 0, isDoc |-> FALSE]
    ELSE IF token.userId \notin 1..Len(coll)
         THEN [status |-> 401, userId |-> 0, isDoc |-> FALSE]
    ELSE [status |-> 0, userId |-> token.userId, isDoc |-> TRUE]

\* verifyToken of the simplified module: never rejects; req.user is null or
\* the decoded payload, which is not a User document
verifyTokenSimplified(coll, token) ==
    IF token.kind = "none" THEN [status |-> 0, userId |-> 0, isDoc |-> FALSE]
    ELSE IF token.kind = "bad" THEN [status |-> 0, userId |-> 0, isDoc |-> FALSE]
    ELSE [status |-> 0, userId |-> token.userId, isDoc |-> FALSE]

verifyToken(coll, token) ==
    IF authModule = "documents" THEN verifyTokenDocuments(coll, token)
    ELSE verifyTokenSimplified(coll, token)

\* an optional authentication that ends the request with 401 when the
\* credential is absent or does not verify
optionalAuthRejecting(coll, token) == verifyTokenDocuments(coll, token)

\* optionalAuth of the module that loads the User document: never rejects
optionalAuthDocuments(coll, token) ==
    IF token.kind = "jwt" /\ token.userId \in 1..Len(coll)
    THEN [status |-> 0, userId |-> token.userId, isDoc |-> TRUE]
    ELSE [status |-> 0, userId |-> 0, isDoc |-> FALSE]

\* optionalAuth of the simplified module: req.user = null
optionalAuthSimplified(coll, token) ==
    [status |-> 0, userId |-> 0, isDoc |-> FALSE]

optionalAuth(coll, token) ==
    IF authModule = "documents" THEN optionalAuthDocuments(coll, token)
    ELSE optionalAuthSimplified(coll, token)

\* ------------------------------------------------------------------------
\* A handler maps the collections and the request to the collections after
\* it and the response: HTTP status, resolved user, savedEvents of the body
\* ------------------------------------------------------------------------
Reply(db, status, userId, savedEvents) ==
    [db |-> db, status |-> status, userId |-> userId,
     savedEvents |-> savedEvents]

\* ------------------------------------------------------------------------
\* POST /api/auth/register
\* ------------------------------------------------------------------------
register(db, email) ==
    IF InvalidEmail(email) THEN Reply(db, 400, 0, <<>>)
    ELSE LET cleanEmail == cleanEmailOf(email)
             id == findOneUser(db.users, cleanEmail)
         IN  IF id # 0
             THEN Reply([db EXCEPT !.users[id].visitCount = @ + 1],
                        200, id, db.users[id].savedEvents)
             ELSE Reply([db EXCEPT !.users = Append(@, NewUser(cleanEmail))],
                        201, Len(db.users) + 1, <<>>)

\* ------------------------------------------------------------------------
\* POST /api/events/save
\* ------------------------------------------------------------------------
\* a save that does not look for an existing entry
alreadySavedUnchecked(savedEvents, eventId) == FALSE

\* req.user.savedEvents.some(saved => saved.eventId === eventId)
alreadySaved(savedEvents, eventId) ==
    \E i \in 1..Len(savedEvents) : savedEvents[i] = eventId

saveEvent(db, token, eventId) ==
    LET auth == verifyToken(db.users, token) IN
    IF auth.status = 401 THEN Reply(db, 401, 0, <<>>)
    ELSE IF eventId = "" THEN Reply(db, 400, auth.userId, <<>>)
    ELSE IF eventId \notin DOMAIN db.events THEN Reply(db, 404, auth.userId, <<>>)
    ELSE IF ~auth.isDoc
    THEN \* req.user is null or has no savedEvents: TypeError, caught
         Reply(db, 500, auth.userId, <<>>)
    ELSE LET u == auth.userId IN
         IF alreadySaved(db.users[u].savedEvents, eventId)
         THEN Reply(db, 200, u, db.users[u].savedEvents)
         ELSE LET pushed == Append(db.users[u].savedEvents, eventId) IN
              Reply([db EXCEPT !.events[eventId].savedCount = @ + 1,
                               !.users[u].savedEvents = pushed],
                    200, u, pushed)

\* ------------------------------------------------------------------------
\* POST /api/events/unsave
\* ------------------------------------------------------------------------
\* savedEvents.filter(saved => saved.eventId !== eventId)
RECURSIVE filterOut(_, _)
filterOut(savedEvents, eventId) ==
    IF savedEvents = <<>> THEN <<>>
    ELSE IF Head(savedEvents) = eventId
         THEN filterOut(Tail(savedEvents), eventId)
         ELSE <<Head(savedEvents)>> \o filterOut(Tail(savedEvents), eventId)

\* an unsave that leaves the counter alone
decrementSavedSkipped(coll, eventId) == coll

\* an unsave that decrements without looking at the counter
decrementSavedUnclamped(coll, eventId) ==
    IF eventId \in DOMAIN coll
    THEN [coll EXCEPT ![eventId].savedCount = @ - 1]
    ELSE coll

\* if (event && event.savedCount > 0) event.savedCount -= 1
decrementSaved(coll, eventId) ==
    IF eventId \in DOMAIN coll /\ coll[eventId].savedCount > 0
    THEN [coll EXCEPT ![eventId].savedCount = @ - 1]
    ELSE coll

unsaveEvent(db, token, eventId) ==
    LET auth == verifyToken(db.users, token) IN
    IF auth.status = 401 THEN Reply(db, 401, 0, <<>>)
    ELSE IF eventId = "" THEN Reply(db, 400, auth.userId, <<>>)
    ELSE IF ~auth.isDoc
    THEN \* req.user is null or has no savedEvents: TypeError, caught
         Reply(db, 500, auth.userId, <<>>)
    ELSE LET u == auth.userId
             filtered == filterOut(db.users[u].savedEvents, eventId)
         IN  Reply([db EXCEPT !.users[u].savedEvents = filtered,
                              !.events = decrementSaved(@, eventId)],
                   200, u, filtered)

\* ------------------------------------------------------------------------
\* POST /api/events/click
\* ------------------------------------------------------------------------
\* Event.findOneAndUpdate({ eventId }, { $inc: { clickCount: 1 } }, { upsert: true })
incClickUpsert(coll, eventId) ==
    IF eventId \in DOMAIN coll
    THEN [coll EXCEPT ![eventId].clickCount = @ + 1]
    ELSE [e \in DOMAIN coll \cup {eventId} |->
            IF e = eventId THEN [savedCount |-> 0, clickCount |-> 1]
            ELSE coll[e]]

\* a click handler that does not look at the eventId
recordClickUnvalidated(db, token, eventId) ==
    LET auth == optionalAuth(db.users, token) IN
    Reply([db EXCEPT
             !.eventClicks = Append(@, [eventId |-> eventId,
                                        userId |-> auth.userId]),
             !.events = incClickUpsert(@, eventId)],
          200, auth.userId, <<>>)

recordClick(db, token, eventId) ==
    LET auth == optionalAuth(db.users, token) IN
    IF auth.status = 401 THEN Reply(db, 401, 0, <<>>)
    ELSE IF eventId = "" THEN Reply(db, 400, auth.userId, <<>>)
    ELSE Reply([db EXCEPT
                  !.eventClicks = Append(@, [eventId |-> eventId,
                                             userId |-> auth.userId]),
                  !.events = incClickUpsert(@, eventId)],
               200, auth.userId, <<>>)

\* ------------------------------------------------------------------------
\* The record of a handled request: handler, HTTP status, resolved user (0 when
\* the credential resolved to none), eventId, savedEvents of the body; for a
\* save or unsave answered 200 also the savedCount of the event and whether
\* the user had the event saved when the request arrived
\* ------------------------------------------------------------------------
Request(op, status, userId, eventId, savedEvents, before, had) ==
    [op |-> op, status |-> status, userId |-> userId, eventId |-> eventId,
     savedEvents |-> savedEvents, before |-> before, had |-> had]

NoRequest == Request("init", 0, 0, "", <<>>, 0, FALSE)

\* a request slot of the MongoDB server: pc is the await the handler stands at,
\* savedEvents is req.user.savedEvents and savedCount is event.savedCount of
\* the documents the handler holds
Slot(pc, op, userId, eventId, savedEvents, savedCount, status) ==
    [pc |-> pc, op |-> op, userId |-> userId, eventId |-> eventId,
     savedEvents |-> savedEvents, savedCount |-> savedCount, status |-> status]

Idle == Slot("idle", "", 0, "", <<>>, 0, 0)

\* initialData of initializeDataFile: no weekly emails, no saved events, no
\* event clicks, no visits, no user sessions
\* (a function with the empty domain is the empty object).  userSessions is
\* held as the sequence of its entries in insertion order, which is the order
\* of Object.keys and Object.values; a date is an instant counted in half
\* days, and the null date is -1.
initialData ==
    [weeklyEmails |-> <<>>, savedEvents |-> <<>>, eventClicks |-> <<>>,
     visitStats |-> [firstVisits |-> 0, returnVisits |-> 0, totalVisits |-> 0,
                     uniqueUsers |-> 0, lastVisit |-> 0 - 1],
     userSessions |-> <<>>]

\* a request slot of the file-backed server: data is the object that
\* readData returned to the handler
FileSlot(pc, op, email, eventId, data, status) ==
    [pc |-> pc, op |-> op, email |-> email, eventId |-> eventId,
     data |-> data, status |-> status]

FileIdle == FileSlot("idle", "", <<>>, "", initialData, 0)

\* memoryStorage of the dual-backend server: users is a Map keyed by email,
\* eventClicks a Map from eventId to the count of its clicks
emptyMemory == [users |-> <<>>, eventClicks |-> <<>>]

savedCountOf(coll, eventId) ==
    IF eventId \in DOMAIN coll THEN coll[eventId].savedCount ELSE 0

\* ------------------------------------------------------------------------
\* Initial state: the catalog holds the sample events
\* ------------------------------------------------------------------------
Init ==
    /\ authModule \in {"documents", "simplified"}
    /\ users = <<>>
    /\ events = [e \in SampleEventIds |-> SampleEvent]
    /\ eventClicks = <<>>
    /\ last = [cur |-> NoRequest, prev |-> NoRequest, changed |-> FALSE]
    /\ reqs = [r \in 1..MaxReqs |-> Idle]
    /\ file = initialData
    /\ fileReqs = [r \in 1..MaxReqs |-> FileIdle]
    /\ connected = TRUE
    /\ memoryStorage = emptyMemory
    /\ visits = <<>>
    /\ subscriptions = <<>>

\* ------------------------------------------------------------------------
\* Sequential request handling: each request is handled to its response
\* before the next one arrives
\* ------------------------------------------------------------------------
Handle(op, eventId, r) ==
    LET engaged == op \in {"save", "unsave"} /\ r.status = 200
        before == IF engaged THEN savedCountOf(events, eventId) ELSE 0
        had == engaged /\ alreadySaved(users[r.userId].savedEvents, eventId)
    IN  /\ users' = r.db.users
        /\ events' = r.db.events
        /\ eventClicks' = r.db.eventClicks
        /\ last' = [cur |-> Request(op, r.status, r.userId, eventId,
                                    r.savedEvents, before, had),
                    prev |-> IF last.cur.op = "save" /\ last.cur.status = 200
                             THEN last.cur ELSE NoRequest,
                    changed |-> r.db # DB]
        /\ UNCHANGED <<authModule, reqs, file, fileReqs, dualVars, engageVars>>

Register(email) ==
    LET r == register(DB, email) IN
    /\ \A i \in 1..Len(r.db.users) : r.db.users[i].visitCount <= MaxVisits
    /\ Handle("register", "", r)

SaveEvent(token, eventId) ==
    Handle("save", eventId, saveEvent(DB, token, eventId))

UnsaveEvent(token, eventId) ==
    Handle("unsave", eventId, unsaveEvent(DB, token, eventId))

RecordClick(token, eventId) ==
    /\ Len(eventClicks) < MaxClicks
    /\ Handle("click", eventId, recordClick(DB, token, eventId))

Next ==
    \/ \E email \in RawEmails : Register(email)
    \/ \E token \in Credentials, eventId \in SaveEventIds : SaveEvent(token, eventId)
    \/ \E token \in Credentials, eventId \in SaveEventIds : UnsaveEvent(token, eventId)
    \/ \E token \in Credentials, eventId \in ClickEventIds : RecordClick(token, eventId)

Spec == Init /\ [][Next]_vars

\* ------------------------------------------------------------------------
\* Properties of sequential request handling
\* ------------------------------------------------------------------------
\* the users that currently have the event saved
Savers(eventId) ==
    {u \in 1..Len(users) : alreadySaved(users[u].savedEvents, eventId)}

\* the number of entries of the event in a saved-event list
RECURSIVE Occurrences(_, _)
Occurrences(savedEvents, eventId) ==
    IF savedEvents = <<>> THEN 0
    ELSE (IF Head(savedEvents) = eventId THEN 1 ELSE 0)
         + Occurrences(Tail(savedEvents), eventId)

\* the last request and the one before it were answered 200 and were
\* a op1 followed by a op2 of the same user for the same event
Consecutive(op1, op2) ==
    /\ last.prev.op = op1 /\ last.prev.status = 200
    /\ last.cur.op = op2 /\ last.cur.status = 200
    /\ last.cur.userId = last.prev.userId
    /\ last.cur.eventId = last.prev.eventId

\* C1: every event's savedCount equals the number of distinct users whose
\* saved-event list currently contains the event
C1_SavedCountEqualsSavers ==
    \A e \in DOMAIN events : events[e].savedCount = Cardinality(Savers(e))

\* C2 as stated: two consecutive saves of one (user, event) raise savedCount
\* by exactly 1 over its value before the first, leave exactly one entry, and
\* the second returns the set the first returned
C2_SaveTwiceAddsOne ==
    Consecutive("save", "save") =>
        /\ events[last.cur.eventId].savedCount = last.prev.before + 1
        /\ Occurrences(users[last.cur.userId].savedEvents, last.cur.eventId) = 1
        /\ last.cur.savedEvents = last.prev.savedEvents
        /\ users[last.cur.userId].savedEvents = last.prev.savedEvents

\* C2 amended: the same, when the user did not have the event saved before
\* the first of the two saves
C2_SaveTwiceFreshAddsOne ==
    (Consecutive("save", "save") /\ ~last.prev.had) =>
        /\ events[last.cur.eventId].savedCount = last.prev.before + 1
        /\ Occurrences(users[last.cur.userId].savedEvents, last.cur.eventId) = 1
        /\ last.cur.savedEvents = last.prev.savedEvents
        /\ users[last.cur.userId].savedEvents = last.prev.savedEvents

\* two saves in a row by a user who did not have the event saved, while
\* another user has it saved
C2_Witness ==
    /\ Consecutive("save", "save") /\ ~last.prev.had
    /\ \E u \in 1..Len(users) :
          u # last.cur.userId /\ alreadySaved(users[u].savedEvents, last.cur.eventId)

C4_UnsaveAbsentIsNoOp ==
    [][(/\ last'.cur.op = "unsave" /\ last'.cur.status = 200
        /\ ~alreadySaved(users[last'.cur.userId].savedEvents, last'.cur.eventId))
       => (users' = users /\ events' = events)]_vars

\* C5: savedCount, clickCount and visitCount are never negative
C5_CountersNonNegative ==
    /\ \A e \in DOMAIN events :
          events[e].savedCount >= 0 /\ events[e].clickCount >= 0
    /\ \A u \in 1..Len(users) : users[u].visitCount >= 0

\* an unsave was handled when the savedCount of the event was already 0
C5_Witness ==
    /\ last.cur.op = "unsave" /\ last.cur.status = 200
    /\ last.cur.before = 0
    /\ events[last.cur.eventId].savedCount = 0

\* C12: a click with an empty or missing eventId is answered 400 and changes
\* nothing: no click record, no clickCount, no catalog entry
C12_EmptyClickIsInvalidInput ==
    (last.cur.op = "click" /\ last.cur.eventId = "") =>
        (last.cur.status = 400 /\ ~last.changed)

\* a click without eventId was answered when a user had an event saved
C12_Witness ==
    /\ last.cur.op = "click" /\ last.cur.eventId = "" /\ last.cur.status = 400
    /\ \E e \in DOMAIN events : events[e].savedCount > 0

\* C10: a save or unsave whose credential resolves to no user is answered 401
C10_UnresolvedIsUnauthenticated ==
    (/\ last.cur.op \in {"save", "unsave"}
     /\ last.cur.userId = 0
     /\ last.cur.eventId # "") => last.cur.status = 401

\* ------------------------------------------------------------------------
\* Concurrent request handling at the MongoDB server: a handler runs from one
\* await to the next as one step, and the steps of different requests
\* interleave.  The users a@x and b@x have registered; the module that loads
\* the User document is the auth middleware.
\* ------------------------------------------------------------------------
InitConc ==
    /\ authModule = "documents"
    /\ users = <<NewUser(<<"a", "@", "x">>), NewUser(<<"b", "@", "x">>)>>
    /\ events = [e \in SampleEventIds |-> SampleEvent]
    /\ eventClicks = <<>>
    /\ last = [cur |-> NoRequest, prev |-> NoRequest, changed |-> FALSE]
    /\ reqs = [r \in 1..MaxReqs |-> Idle]
    /\ file = initialData
    /\ fileReqs = [r \in 1..MaxReqs |-> FileIdle]
    /\ connected = TRUE
    /\ memoryStorage = emptyMemory
    /\ visits = <<>>
    /\ subscriptions = <<>>

Done(r, status) ==
    reqs' = [reqs EXCEPT ![r].pc = "done", ![r].status = status]

\* verifyToken: await User.findById(decoded.userId); then the handler runs
\* up to await Event.findOne({ eventId })
SaveAuth(r, token, eventId) ==
    LET auth == verifyToken(users, token) IN
    /\ reqs[r].pc = "idle"
    /\ reqs' = [reqs EXCEPT ![r] =
          IF auth.status = 401
          THEN Slot("done", "save", 0, eventId, <<>>, 0, 401)
          ELSE IF eventId = ""
          THEN Slot("done", "save", auth.userId, eventId, <<>>, 0, 400)
          ELSE Slot("findEvent", "save", auth.userId, eventId,
                    users[auth.userId].savedEvents, 0, 0)]
    /\ UNCHANGED <<authModule, users, events, eventClicks, last, file, fileReqs, dualVars, engageVars>>

\* Event.findOne resolves; then the handler runs up to await event.save()
SaveFindEvent(r) ==
    LET q == reqs[r] IN
    /\ q.pc = "findEvent"
    /\ reqs' = [reqs EXCEPT ![r] =
          IF q.eventId \notin DOMAIN events
          THEN [q EXCEPT !.pc = "done", !.status = 404]
          ELSE IF alreadySaved(q.savedEvents, q.eventId)
          THEN [q EXCEPT !.pc = "done", !.status = 200]
          ELSE [q EXCEPT !.pc = "eventSave",
                         !.savedEvents = Append(@, q.eventId),
                         !.savedCount = events[q.eventId].savedCount + 1]]
    /\ UNCHANGED <<authModule, users, events, eventClicks, last, file, fileReqs, dualVars, engageVars>>

\* event.save(): the modified path savedCount is set to the handler's value
SaveEventSave(r) ==
    LET q == reqs[r] IN
    /\ q.pc = "eventSave"
    /\ events' = [events EXCEPT ![q.eventId].savedCount = q.savedCount]
    /\ reqs' = [reqs EXCEPT ![r].pc = "userSave"]
    /\ UNCHANGED <<authModule, users, eventClicks, last, file, fileReqs, dualVars, engageVars>>

\* req.user.save(): the pushed entry is appended to the stored array
SaveUserSave(r) ==
    LET q == reqs[r] IN
    /\ q.pc = "userSave"
    /\ users' = [users EXCEPT ![q.userId].savedEvents = Append(@, q.eventId)]
    /\ Done(r, 200)
    /\ UNCHANGED <<authModule, events, eventClicks, last, file, fileReqs, dualVars, engageVars>>

\* a save() rejects (the store is unreachable): the catch block answers 500
SaveFails(r) ==
    /\ reqs[r].pc \in {"eventSave", "userSave"}
    /\ Done(r, 500)
    /\ UNCHANGED <<authModule, users, events, eventClicks, last, file, fileReqs, dualVars, engageVars>>

NextConc ==
    \/ \E r \in 1..MaxReqs, token \in Credentials, eventId \in SaveEventIds :
          SaveAuth(r, token, eventId)
    \/ \E r \in 1..MaxReqs : SaveFindEvent(r)
    \/ \E r \in 1..MaxReqs : SaveEventSave(r)
    \/ \E r \in 1..MaxReqs : SaveUserSave(r)
    \/ \E r \in 1..MaxReqs : SaveFails(r)

SpecConc == InitConc /\ [][NextConc]_vars

\* no handler stands between two awaits
Quiescent == \A r \in 1..MaxReqs : reqs[r].pc \in {"idle", "done"}

\* C6: a user's saved-event list holds each eventId at most once
C6_NoDuplicateSaved ==
    \A u \in 1..Len(users) : \A e \in SaveEventIds :
        Occurrences(users[u].savedEvents, e) <= 1

\* C8: the entry and the increment of a save come together: whenever no handler
\* is between its writes, also after a handler failed between them, each
\* event's savedCount is the number of users that have the event saved
C8_SaveWritesAreOneUnit ==
    Quiescent =>
        \A e \in DOMAIN events : events[e].savedCount = Cardinality(Savers(e))

\* ------------------------------------------------------------------------
\* The file-backed server: every handler reads the whole data file, changes
\* the object it got and writes the whole file back.  A handler runs from one
\* await to the next as one step, and the steps of different requests
\* interleave.
\* ------------------------------------------------------------------------
FileEmails == { <<"a", "@", "x">>, <<"b", "@", "x">>, <<>> }
FileEventIds == {"event-1", ""}

\* data.eventClicks[eventId] = { count: 0 } when absent; then count += 1
clickInData(data, eventId) ==
    LET clicks == data.eventClicks
        count == IF eventId \in DOMAIN clicks THEN clicks[eventId] ELSE 0
    IN  [data EXCEPT !.eventClicks =
            [e \in DOMAIN clicks \cup {eventId} |->
                IF e = eventId THEN count + 1 ELSE clicks[e]]]

\* data.savedEvents[email] = [] when absent; push unless included
saveInData(data, email, eventId) ==
    LET saved == data.savedEvents
        list == IF email \in DOMAIN saved THEN saved[email] ELSE <<>>
    IN  [data EXCEPT !.savedEvents =
            [m \in DOMAIN saved \cup {email} |->
                IF m = email
                THEN IF alreadySaved(list, eventId) THEN list
                     ELSE Append(list, eventId)
                ELSE saved[m]]]

savedInData(data, email, eventId) ==
    /\ email \in DOMAIN data.savedEvents
    /\ alreadySaved(data.savedEvents[email], eventId)

InitFile ==
    /\ authModule = "documents"
    /\ users = <<>>
    /\ events = [e \in SampleEventIds |-> SampleEvent]
    /\ eventClicks = <<>>
    /\ last = [cur |-> NoRequest, prev |-> NoRequest, changed |-> FALSE]
    /\ reqs = [r \in 1..MaxReqs |-> Idle]
    /\ file = initialData
    /\ fileReqs = [r \in 1..MaxReqs |-> FileIdle]
    /\ connected = TRUE
    /\ memoryStorage = emptyMemory
    /\ visits = <<>>
    /\ subscriptions = <<>>

\* POST /api/events/click up to await readData()
FileClickArrives(r, eventId) ==
    /\ fileReqs[r].pc = "idle"
    /\ fileReqs' = [fileReqs EXCEPT ![r] =
          IF eventId = ""
          THEN FileSlot("done", "click", <<>>, eventId, initialData, 400)
          ELSE FileSlot("read", "click", <<>>, eventId, initialData, 0)]
    /\ UNCHANGED <<mongoVars, file, dualVars, engageVars>>

\* POST /api/events/save up to await readData()
FileSaveArrives(r, email, eventId) ==
    /\ fileReqs[r].pc = "idle"
    /\ fileReqs' = [fileReqs EXCEPT ![r] =
          IF email = <<>> \/ eventId = ""
          THEN FileSlot("done", "save", email, eventId, initialData, 400)
          ELSE FileSlot("read", "save", email, eventId, initialData, 0)]
    /\ UNCHANGED <<mongoVars, file, dualVars, engageVars>>

\* readData() resolves with the content of the file; the handler changes the
\* object and runs up to await writeData(data), or answers when it has
\* nothing to write
FileRead(r) ==
    LET q == fileReqs[r] IN
    /\ q.pc = "read"
    /\ fileReqs' = [fileReqs EXCEPT ![r] =
          IF q.op = "click"
          THEN [q EXCEPT !.pc = "write", !.data = clickInData(file, q.eventId)]
          ELSE IF savedInData(file, q.email, q.eventId)
          THEN [q EXCEPT !.pc = "done", !.status = 200,
                         !.data = saveInData(file, q.email, q.eventId)]
          ELSE [q EXCEPT !.pc = "write",
                         !.data = saveInData(file, q.email, q.eventId)]]
    /\ UNCHANGED <<mongoVars, file, dualVars, engageVars>>

\* writeData(data) replaces the content of the file; the handler answers
FileWrite(r) ==
    LET q == fileReqs[r] IN
    /\ q.pc = "write"
    /\ file' = q.data
    /\ fileReqs' = [fileReqs EXCEPT ![r].pc = "done", ![r].status = 200]
    /\ UNCHANGED <<mongoVars, dualVars, engageVars>>

NextFile ==
    \/ \E r \in 1..MaxReqs, eventId \in FileEventIds : FileClickArrives(r, eventId)
    \/ \E r \in 1..MaxReqs, email \in FileEmails, eventId \in FileEventIds :
          FileSaveArrives(r, email, eventId)
    \/ \E r \in 1..MaxReqs : FileRead(r)
    \/ \E r \in 1..MaxReqs : FileWrite(r)

SpecFile == InitFile /\ [][NextFile]_vars

\* the click requests for the event that were answered 200
ClicksAnswered(eventId) ==
    {r \in 1..MaxReqs :
        /\ fileReqs[r].pc = "done" /\ fileReqs[r].op = "click"
        /\ fileReqs[r].eventId = eventId /\ fileReqs[r].status = 200}

clickCountInFile(eventId) ==
    IF eventId \in DOMAIN file.eventClicks THEN file.eventClicks[eventId] ELSE 0

\* C7: no update is lost: once every request has been answered, the click
\* count of an event is the number of click requests answered 200 for it
C7_NoLostClick ==
    (\A r \in 1..MaxReqs : fileReqs[r].pc = "done") =>
        \A e \in FileEventIds \ {""} :
            clickCountInFile(e) = Cardinality(ClicksAnswered(e))

\* ------------------------------------------------------------------------
\* The dual-backend server: every handler serves the request from MongoDB
\* when the connection is up and from memoryStorage otherwise.  Requests are
\* handled one at a time.
\* ------------------------------------------------------------------------
DualEmails == { <<"a", "@", "x">>, <<"A", "@", "x", " ">>, <<"a", "x">> }
DualEventIds == {"event-1", "event-7", ""}

\* jwt.sign({ userId, email }, secret)
generateDualToken(userId, email) ==
    [kind |-> "jwt", userId |-> userId, email |-> email]

NoDualToken == [kind |-> "none", userId |-> 0, email |-> <<>>]
BadDualToken == [kind |-> "bad", userId |-> 0, email |-> <<>>]

\* ids: a MongoDB _id is the (positive) index in the collection; the id of the
\* n-th user created in memory is -n; the id `user_<time>_<random>` that
\* register generates and gives to no user is 0
memoryId(n) == 0 - n
unusedId == 0

\* the credentials a client can hold: none, one that does not verify, and
\* the tokens register has returned
DualCredentials ==
    {NoDualToken, BadDualToken}
    \cup {generateDualToken(i, users[i].email) : i \in 1..Len(users)}
    \cup {generateDualToken(memoryStorage.users[m].id, m) :
             m \in DOMAIN memoryStorage.users}
    \cup {generateDualToken(unusedId, m) :
             m \in {k \in DOMAIN memoryStorage.users :
                       memoryStorage.users[k].visitCount > 1}}

\* verifyToken(token): the decoded payload, or null
verifyDualToken(token) == IF token.kind = "jwt" THEN token ELSE NoDualToken

\* Array.from(memoryStorage.users.values())
\*     .find(u => u.id === decoded.userId || u.email === decoded.email)
findMemoryUser(mem, decoded) ==
    {m \in DOMAIN mem.users :
        mem.users[m].id = decoded.userId \/ m = decoded.email}

DualReply(coll, mem, status, userId, savedEvents) ==
    [users |-> coll, memoryStorage |-> mem, status |-> status,
     userId |-> userId, savedEvents |-> savedEvents]

\* POST /api/auth/register
dualRegister(coll, mem, isConnected, email) ==
    IF InvalidEmail(email) THEN DualReply(coll, mem, 400, 0, <<>>)
    ELSE LET cleanEmail == cleanEmailOf(email) IN
         IF isConnected
         THEN LET id == findOneUser(coll, cleanEmail) IN
              IF id # 0
              THEN DualReply([coll EXCEPT ![id].visitCount = @ + 1], mem,
                             200, id, coll[id].savedEvents)
              ELSE DualReply(Append(coll, NewUser(cleanEmail)), mem,
                             200, Len(coll) + 1, <<>>)
         ELSE IF cleanEmail \in DOMAIN mem.users
              THEN DualReply(coll,
                             [mem EXCEPT !.users[cleanEmail].visitCount = @ + 1],
                             200, mem.users[cleanEmail].id,
                             mem.users[cleanEmail].savedEvents)
              ELSE LET id == memoryId(Cardinality(DOMAIN mem.users) + 1)
                       user == [id |-> id, savedEvents |-> <<>>, visitCount |-> 1]
                   IN  DualReply(coll,
                                 [mem EXCEPT !.users =
                                    [m \in DOMAIN mem.users \cup {cleanEmail} |->
                                        IF m = cleanEmail THEN user
                                        ELSE mem.users[m]]],
                                 200, id, <<>>)

\* POST /api/events/save
dualSaveEvent(coll, mem, isConnected, token, eventId) ==
    LET decoded == verifyDualToken(token) IN
    IF eventId = "" THEN DualReply(coll, mem, 400, 0, <<>>)
    ELSE IF token.kind = "none" THEN DualReply(coll, mem, 401, 0, <<>>)
    ELSE IF decoded.kind # "jwt" THEN DualReply(coll, mem, 401, 0, <<>>)
    ELSE IF isConnected
    THEN IF decoded.userId <= 0
         THEN \* User.findById of an id that is no ObjectId: CastError, caught
              DualReply(coll, mem, 500, 0, <<>>)
         ELSE IF decoded.userId \notin 1..Len(coll)
         THEN DualReply(coll, mem, 404, 0, <<>>)
         ELSE LET u == decoded.userId
                  list == IF alreadySaved(coll[u].savedEvents, eventId)
                          THEN coll[u].savedEvents
                          ELSE Append(coll[u].savedEvents, eventId)
              IN  DualReply([coll EXCEPT ![u].savedEvents = list], mem,
                            200, u, list)
    ELSE LET found == findMemoryUser(mem, decoded) IN
         IF found = {} THEN DualReply(coll, mem, 404, 0, <<>>)
         ELSE LET m == CHOOSE k \in found : TRUE
                  list == IF alreadySaved(mem.users[m].savedEvents, eventId)
                          THEN mem.users[m].savedEvents
                          ELSE Append(mem.users[m].savedEvents, eventId)
              IN  DualReply(coll, [mem EXCEPT !.users[m].savedEvents = list],
                            200, mem.users[m].id, list)

\* POST /api/events/unsave
dualUnsaveEvent(coll, mem, isConnected, token, eventId) ==
    LET decoded == verifyDualToken(token) IN
    IF eventId = "" THEN DualReply(coll, mem, 400, 0, <<>>)
    ELSE IF token.kind = "none" THEN DualReply(coll, mem, 401, 0, <<>>)
    ELSE IF decoded.kind # "jwt" THEN DualReply(coll, mem, 401, 0, <<>>)
    ELSE IF isConnected
    THEN IF decoded.userId <= 0
         THEN DualReply(coll, mem, 500, 0, <<>>)
         ELSE IF decoded.userId \notin 1..Len(coll)
         THEN DualReply(coll, mem, 404, 0, <<>>)
         ELSE LET u == decoded.userId
                  list == filterOut(coll[u].savedEvents, eventId)
              IN  DualReply([coll EXCEPT ![u].savedEvents = list], mem,
                            200, u, list)
    ELSE LET found == findMemoryUser(mem, decoded) IN
         IF found = {} THEN DualReply(coll, mem, 404, 0, <<>>)
         ELSE LET m == CHOOSE k \in found : TRUE
                  list == filterOut(mem.users[m].savedEvents, eventId)
              IN  DualReply(coll, [mem EXCEPT !.users[m].savedEvents = list],
                            200, mem.users[m].id, list)

\* connectDB() has connected or has failed when the first request arrives;
\* the sample events are inserted when the connection is up at startup
InitDual ==
    /\ authModule = "documents"
    /\ users = <<>>
    /\ connected \in BOOLEAN
    /\ events = IF connected THEN [e \in SampleEventIds |-> SampleEvent] ELSE <<>>
    /\ eventClicks = <<>>
    /\ last = [cur |-> NoRequest, prev |-> NoRequest, changed |-> FALSE]
    /\ reqs = [r \in 1..MaxReqs |-> Idle]
    /\ file = initialData
    /\ fileReqs = [r \in 1..MaxReqs |-> FileIdle]
    /\ memoryStorage = emptyMemory
    /\ visits = <<>>
    /\ subscriptions = <<>>

DualHandle(op, eventId, r) ==
    /\ users' = r.users
    /\ memoryStorage' = r.memoryStorage
    /\ last' = [cur |-> Request(op, r.status, r.userId, eventId,
                                r.savedEvents, 0, FALSE),
                prev |-> NoRequest,
                changed |-> (r.users # users \/ r.memoryStorage # memoryStorage)]
    /\ UNCHANGED <<authModule, events, eventClicks, reqs, fileVars, connected, engageVars>>

DualRegister(email) ==
    LET r == dualRegister(users, memoryStorage, connected, email) IN
    /\ \A i \in 1..Len(r.users) : r.users[i].visitCount <= MaxVisits
    /\ \A m \in DOMAIN r.memoryStorage.users :
          r.memoryStorage.users[m].visitCount <= MaxVisits
    /\ DualHandle("register", "", r)

DualSaveEvent(token, eventId) ==
    DualHandle("save", eventId,
               dualSaveEvent(users, memoryStorage, connected, token, eventId))

DualUnsaveEvent(token, eventId) ==
    DualHandle("unsave", eventId,
               dualUnsaveEvent(users, memoryStorage, connected, token, eventId))

\* POST /api/events/save when User.findById or user.save() rejects (the
\* store stops answering during the request): the catch block answers 500
\* and memoryStorage is not written
DualSaveEventFails(token, eventId) ==
    /\ connected
    /\ eventId # "" /\ verifyDualToken(token).kind = "jwt"
    /\ DualHandle("save", eventId, DualReply(users, memoryStorage, 500, 0, <<>>))

\* the connection to MongoDB drops
Disconnect ==
    /\ connected
    /\ connected' = FALSE
    /\ UNCHANGED <<mongoVars, fileVars, memoryStorage, engageVars>>

\* mongoose reconnects
Reconnect ==
    /\ ~connected
    /\ connected' = TRUE
    /\ UNCHANGED <<mongoVars, fileVars, memoryStorage, engageVars>>

\* memoryStorage.eventClicks after one more click of the event
countClickInMemory(mem, eventId) ==
    [mem EXCEPT !.eventClicks =
        [e \in DOMAIN mem.eventClicks \cup {eventId} |->
            IF e = eventId
            THEN (IF e \in DOMAIN mem.eventClicks
                  THEN mem.eventClicks[e] + 1 ELSE 1)
            ELSE mem.eventClicks[e]]]

\* the number of clicks counted in memoryStorage.eventClicks
RECURSIVE SumCounts(_, _)
SumCounts(counts, ids) ==
    IF ids = {} THEN 0
    ELSE LET e == CHOOSE x \in ids : TRUE
         IN  counts[e] + SumCounts(counts, ids \ {e})

\* new EventClick(clickData).save() rejects a userId that casts to no
\* ObjectId; a null userId is stored as it is
castsToObjectId(token) ==
    verifyDualToken(token).kind # "jwt" \/ verifyDualToken(token).userId > 0

\* POST /api/events/click
DualRecordClick(token, eventId) ==
    LET decoded == verifyDualToken(token)
        stored == connected /\ castsToObjectId(token)
    IN  /\ SumCounts(memoryStorage.eventClicks,
                     DOMAIN memoryStorage.eventClicks) < MaxClicks
        /\ IF eventId = ""
           THEN /\ last' = [cur |-> Request("click", 400, 0, eventId, <<>>, 0, FALSE),
                            prev |-> NoRequest, changed |-> FALSE]
                /\ UNCHANGED <<eventClicks, events, memoryStorage>>
           ELSE /\ eventClicks' =
                      IF stored
                      THEN Append(eventClicks, [eventId |-> eventId,
                                                userId |-> decoded.userId])
                      ELSE eventClicks
                /\ events' = IF stored THEN incClickUpsert(events, eventId)
                             ELSE events
                /\ memoryStorage' = countClickInMemory(memoryStorage, eventId)
                /\ last' = [cur |-> Request("click", 200, decoded.userId, eventId,
                                            <<>>, 0, FALSE),
                            prev |-> NoRequest, changed |-> TRUE]
        /\ UNCHANGED <<authModule, users, reqs, fileVars, connected, engageVars>>

NextDual ==
    \/ \E email \in DualEmails : DualRegister(email)
    \/ \E token \in DualCredentials, eventId \in DualEventIds :
          DualSaveEvent(token, eventId)
    \/ \E token \in DualCredentials, eventId \in DualEventIds :
          DualUnsaveEvent(token, eventId)
    \/ \E token \in DualCredentials, eventId \in DualEventIds :
          DualSaveEventFails(token, eventId)
    \/ \E token \in DualCredentials, eventId \in ClickEventIds :
          DualRecordClick(token, eventId)
    \/ Disconnect
    \/ Reconnect

SpecDual == InitDual /\ [][NextDual]_vars

\* C9: a save by a resolved user of an eventId that is not in the catalog is
\* answered 404 (and then nothing has changed)
C9_UnknownEventIsNotFound ==
    (/\ last.cur.op = "save"
     /\ last.cur.userId # 0
     /\ last.cur.eventId # ""
     /\ last.cur.eventId \notin SampleEventIds) => last.cur.status = 404

\* the clickCount of an event in a catalog, 0 when the catalog has no such event
clickCountOf(coll, eventId) ==
    IF eventId \in DOMAIN coll THEN coll[eventId].clickCount ELSE 0

\* C11: every click with a non-empty eventId is answered 200, appends exactly
\* one click record and raises the clickCount of the event by exactly 1; an
\* event that was not in the catalog is created with clickCount 1 and
\* savedCount 0.  (Stated for the requests handled while MongoDB is connected.)
C11_ClickRecordsAndCounts ==
    [][\A token \in DualCredentials, eventId \in ClickEventIds \ {""} :
          (connected /\ DualRecordClick(token, eventId)) =>
              /\ last'.cur.status = 200
              /\ Len(eventClicks') = Len(eventClicks) + 1
              /\ eventClicks'[Len(eventClicks')].eventId = eventId
              /\ clickCountOf(events', eventId) = clickCountOf(events, eventId) + 1
              /\ eventId \notin DOMAIN events => events'[eventId].savedCount = 0]_vars

\* ------------------------------------------------------------------------
\* Engagement tracking at the MongoDB server: register, POST /api/visits/track
\* and POST /api/events/click, handled one at a time
\* ------------------------------------------------------------------------
EngageEmails == { <<"a", "@", "x">> }
EngageEventIds == {"event-1", ""}

\* req.body.sessionId: a session id the client holds, or none
ClientSessionId == <<"client", 1>>
SessionIds == {ClientSessionId, <<>>}

\* `session_${Date.now()}_${Math.random()...}`: an id no earlier visit has
generatedSessionId(n) == <<"session", n>>

\* the user a token was minted for, 0 when it is no token of a user
actorOf(coll, token) ==
    IF token.kind = "jwt" /\ token.userId \in 1..Len(coll)
    THEN token.userId ELSE 0

VisitReply(coll, vis, status, userId, isNewUser) ==
    [users |-> coll, visits |-> vis, status |-> status, userId |-> userId,
     isNewUser |-> isNewUser]

\* a tracker that keeps one record per session: the new record takes the
\* place of the session's earlier ones
trackVisitReplacing(coll, vis, token, sessionId, isReturning) ==
    LET auth == optionalAuth(coll, token)
        currentSessionId == IF sessionId # <<>> THEN sessionId
                            ELSE generatedSessionId(Len(vis) + 1)
        user == IF auth.isDoc THEN auth.userId ELSE 0
        visit == [userId |-> user, sessionId |-> currentSessionId,
                  isNewUser |-> ~isReturning]
        others == SelectSeq(vis, LAMBDA v : v.sessionId # currentSessionId)
    IN  IF auth.status = 401 THEN VisitReply(coll, vis, 401, 0, FALSE)
        ELSE VisitReply(IF user # 0
                        THEN [coll EXCEPT ![user].visitCount = @ + 1]
                        ELSE coll,
                        Append(others, visit), 200, user, ~isReturning)

\* POST /api/visits/track
trackVisit(coll, vis, token, sessionId, isReturning) ==
    LET auth == optionalAuth(coll, token)
        currentSessionId == IF sessionId # <<>> THEN sessionId
                            ELSE generatedSessionId(Len(vis) + 1)
        user == IF auth.isDoc THEN auth.userId ELSE 0
        visit == [userId |-> user, sessionId |-> currentSessionId,
                  isNewUser |-> ~isReturning]
    IN  IF auth.status = 401 THEN VisitReply(coll, vis, 401, 0, FALSE)
        ELSE VisitReply(IF user # 0
                        THEN [coll EXCEPT ![user].visitCount = @ + 1]
                        ELSE coll,
                        Append(vis, visit), 200, user, ~isReturning)

\* the record of a handled tracking request: the kind of its credential, the
\* user the credential was minted for, the user the middleware resolved, that
\* user's visitCount and the length of the log before the request
EngageRequest(op, status, token, actor, userId, eventId, before, logBefore) ==
    [op |-> op, status |-> status, cred |-> token.kind, actor |-> actor,
     userId |-> userId, eventId |-> eventId, before |-> before,
     logBefore |-> logBefore]

InitEngage ==
    /\ authModule \in {"documents", "simplified"}
    /\ users = <<>>
    /\ events = [e \in SampleEventIds |-> SampleEvent]
    /\ eventClicks = <<>>
    /\ visits = <<>>
    /\ last = [cur |-> NoRequest, prev |-> NoRequest, changed |-> FALSE]
    /\ reqs = [r \in 1..MaxReqs |-> Idle]
    /\ file = initialData
    /\ fileReqs = [r \in 1..MaxReqs |-> FileIdle]
    /\ connected = TRUE
    /\ memoryStorage = emptyMemory
    /\ subscriptions = <<>>

EngageRegister(email) ==
    LET r == register(DB, email) IN
    /\ \A i \in 1..Len(r.db.users) : r.db.users[i].visitCount <= MaxVisits
    /\ users' = r.db.users
    /\ last' = [cur |-> EngageRequest("register", r.status, NoToken, 0,
                                      r.userId, "", 0, 0),
                prev |-> NoRequest, changed |-> TRUE]
    /\ UNCHANGED <<authModule, events, eventClicks, visits, subscriptions,
                   reqs, fileVars, dualVars>>

TrackVisit(token, sessionId, isReturning) ==
    LET r == trackVisit(users, visits, token, sessionId, isReturning)
        actor == actorOf(users, token)
    IN  /\ Len(r.visits) <= MaxVisits
        /\ \A i \in 1..Len(r.users) : r.users[i].visitCount <= MaxVisits
        /\ users' = r.users
        /\ visits' = r.visits
        /\ last' = [cur |-> EngageRequest("visit", r.status, token, actor,
                                          r.userId, "",
                                          IF actor # 0
                                          THEN users[actor].visitCount ELSE 0,
                                          Len(visits)),
                    prev |-> NoRequest, changed |-> r.users # users]
        /\ UNCHANGED <<authModule, events, eventClicks, subscriptions,
                       reqs, fileVars, dualVars>>

EngageClick(token, eventId) ==
    LET r == recordClick(DB, token, eventId) IN
    /\ Len(r.db.eventClicks) <= MaxClicks
    /\ events' = r.db.events
    /\ eventClicks' = r.db.eventClicks
    /\ last' = [cur |-> EngageRequest("click", r.status, token,
                                      actorOf(users, token), r.userId, eventId,
                                      0, Len(eventClicks)),
                prev |-> NoRequest, changed |-> r.db.users # users]
    /\ UNCHANGED <<authModule, users, visits, subscriptions,
                   reqs, fileVars, dualVars>>

NextEngage ==
    \/ \E email \in EngageEmails : EngageRegister(email)
    \/ \E token \in Credentials, sessionId \in SessionIds, isReturning \in BOOLEAN :
          TrackVisit(token, sessionId, isReturning)
    \/ \E token \in Credentials, eventId \in EngageEventIds :
          EngageClick(token, eventId)

SpecEngage == InitEngage /\ [][NextEngage]_vars

\* C13: the first visit of a sessionId is classified new and every later
\* visit of that sessionId returning, whatever isReturning hint was passed
C13_FirstVisitNewLaterReturning ==
    \A i \in 1..Len(visits) :
        visits[i].isNewUser =
            (\A j \in 1..(i - 1) : visits[j].sessionId # visits[i].sessionId)

\* C14: at most one visit record per sessionId is marked new
C14_OneNewVisitPerSession ==
    \A i, j \in 1..Len(visits) :
        (i < j /\ visits[i].sessionId = visits[j].sessionId)
            => ~(visits[i].isNewUser /\ visits[j].isNewUser)

\* C15: a visit with the token of a user appends one record bound to that user
\* and raises the user's visitCount by exactly 1; a visit without such a token
\* appends one record and changes no user
C15_VisitUpdatesActor ==
    (last.cur.op = "visit") =>
        /\ last.cur.status = 200
        /\ Len(visits) = last.cur.logBefore + 1
        /\ visits[Len(visits)].userId = last.cur.actor
        /\ IF last.cur.actor # 0
           THEN users[last.cur.actor].visitCount = last.cur.before + 1
           ELSE ~last.changed

\* C19: a click or a visit whose credential is absent or does not verify is
\* answered 200, is recorded without a user, and changes no user
C19_AnonymousTrackingSucceeds ==
    (/\ last.cur.op \in {"click", "visit"}
     /\ last.cur.cred \in {"none", "bad"}
     /\ last.cur.op = "click" => last.cur.eventId # "") =>
        /\ last.cur.status = 200
        /\ ~last.changed
        /\ IF last.cur.op = "click"
           THEN /\ Len(eventClicks) = last.cur.logBefore + 1
                /\ eventClicks[Len(eventClicks)].userId = 0
           ELSE /\ Len(visits) = last.cur.logBefore + 1
                /\ visits[Len(visits)].userId = 0

\* a visit with a token that does not verify was recorded after a user had
\* registered and a click without token had been recorded
C19_Witness ==
    /\ last.cur.op = "visit" /\ last.cur.cred = "bad" /\ last.cur.status = 200
    /\ users # <<>>
    /\ \E i \in 1..Len(eventClicks) : eventClicks[i].userId = 0

\* ------------------------------------------------------------------------
\* Registration and email subscription at the MongoDB server, handled one
\* request at a time
\* ------------------------------------------------------------------------
\* EmailSubscription.findOne({ email: cleanEmail })
findOneSubscription(subs, cleanEmail) ==
    IF \E i \in 1..Len(subs) : subs[i].email = cleanEmail
    THEN CHOOSE i \in 1..Len(subs) : subs[i].email = cleanEmail
    ELSE 0

SubReply(coll, subs, status, userId) ==
    [users |-> coll, subscriptions |-> subs, status |-> status,
     userId |-> userId]

\* POST /api/emails/subscribe
subscribe(coll, subs, email) ==
    IF InvalidEmail(email) THEN SubReply(coll, subs, 400, 0)
    ELSE LET cleanEmail == cleanEmailOf(email)
             found == findOneUser(coll, cleanEmail)
             coll2 == IF found = 0 THEN Append(coll, NewUser(cleanEmail))
                      ELSE coll
             user == IF found = 0 THEN Len(coll) + 1 ELSE found
             s == findOneSubscription(subs, cleanEmail)
             subs2 == IF s = 0
                      THEN Append(subs, [email |-> cleanEmail,
                                         isActive |-> TRUE,
                                         unsubscribedAt |-> "null",
                                         userId |-> user])
                      ELSE IF ~subs[s].isActive
                      THEN [subs EXCEPT ![s].isActive = TRUE,
                                        ![s].unsubscribedAt = "null"]
                      ELSE subs
         IN  SubReply(coll2, subs2, 200, user)

\* a filter that is sent to the store as it was written
castForQueryVerbatim(email) == email

\* EmailSubscription.findOne({ email }): mongoose casts the filter by the
\* schema of the path, which is declared lowercase: true, trim: true, before
\* the query is sent
castForQuery(email) == trim(toLowerCase(email))

\* an unsubscribe that removes the record
unsubscribeDeleting(subs, email) ==
    IF email = <<>> THEN SubReply(<<>>, subs, 400, 0)
    ELSE SubReply(<<>>,
                  SelectSeq(subs, LAMBDA d : d.email # toLowerCase(email)),
                  200, 0)

\* POST /api/emails/unsubscribe; unsubscribedAt is "date" once new Date() has
\* been recorded and "null" otherwise
unsubscribe(subs, email) ==
    IF email = <<>> THEN SubReply(<<>>, subs, 400, 0)
    ELSE LET s == findOneSubscription(subs, castForQuery(toLowerCase(email))) IN
         IF s # 0
         THEN SubReply(<<>>, [subs EXCEPT ![s].isActive = FALSE,
                                          ![s].unsubscribedAt = "date"],
                       200, 0)
         ELSE SubReply(<<>>, subs, 200, 0)

\* the record of a handled request: handler, HTTP status, the email of the
\* body as it was sent, the user of the response, and the subscriptions
\* before the request
SubRequest(op, status, email, userId, before) ==
    [op |-> op, status |-> status, email |-> email, userId |-> userId,
     before |-> before]

InitSub ==
    /\ authModule = "documents"
    /\ users = <<>>
    /\ subscriptions = <<>>
    /\ events = [e \in SampleEventIds |-> SampleEvent]
    /\ eventClicks = <<>>
    /\ visits = <<>>
    /\ last = [cur |-> NoRequest, prev |-> NoRequest, changed |-> FALSE]
    /\ reqs = [r \in 1..MaxReqs |-> Idle]
    /\ file = initialData
    /\ fileReqs = [r \in 1..MaxReqs |-> FileIdle]
    /\ connected = TRUE
    /\ memoryStorage = emptyMemory

SubRegister(email) ==
    LET r == register(DB, email) IN
    /\ \A i \in 1..Len(r.db.users) : r.db.users[i].visitCount <= MaxVisits
    /\ users' = r.db.users
    /\ last' = [cur |-> SubRequest("register", r.status, email, r.userId,
                                    subscriptions),
                prev |-> NoRequest, changed |-> r.db.users # users]
    /\ UNCHANGED <<authModule, events, eventClicks, visits, subscriptions,
                   reqs, fileVars, dualVars>>

Subscribe(email) ==
    LET r == subscribe(users, subscriptions, email) IN
    /\ users' = r.users
    /\ subscriptions' = r.subscriptions
    /\ last' = [cur |-> SubRequest("subscribe", r.status, email, r.userId,
                                    subscriptions),
                prev |-> NoRequest,
                changed |-> (r.users # users \/ r.subscriptions # subscriptions)]
    /\ UNCHANGED <<authModule, events, eventClicks, visits,
                   reqs, fileVars, dualVars>>

\* the emails of unsubscribe requests, as the unsubscribe link carries them
UnsubscribeEmails ==
    { <<"a", "@", "x">>, <<"A", "@", "x">>, <<"A", "@", "x", " ">>,
      <<" ", "a", "@", "x">>, <<"b", "@", "x">>, <<>> }

Unsubscribe(email) ==
    LET r == unsubscribe(subscriptions, email) IN
    /\ subscriptions' = r.subscriptions
    /\ last' = [cur |-> SubRequest("unsubscribe", r.status, email, 0,
                                    subscriptions),
                prev |-> NoRequest,
                changed |-> r.subscriptions # subscriptions]
    /\ UNCHANGED <<authModule, users, events, eventClicks, visits,
                   reqs, fileVars, dualVars>>

NextSub ==
    \/ \E email \in RawEmails : SubRegister(email)
    \/ \E email \in RawEmails : Subscribe(email)
    \/ \E email \in UnsubscribeEmails : Unsubscribe(email)

SpecSub == InitSub /\ [][NextSub]_vars

\* C18: a register or subscribe whose email is missing or holds no "@" is
\* answered 400 and creates or modifies no user and no subscription
C18_InvalidEmailIsInvalidInput ==
    (/\ last.cur.op \in {"register", "subscribe"}
     /\ (last.cur.email = <<>> \/ ~includes(last.cur.email, "@"))) =>
        (last.cur.status = 400 /\ ~last.changed)

\* a subscribe with an email without "@" was answered 400 when a user and a
\* subscription existed
C18_Witness ==
    /\ last.cur.op = "subscribe" /\ last.cur.status = 400
    /\ last.cur.email # <<>> /\ ~includes(last.cur.email, "@")
    /\ users # <<>> /\ subscriptions # <<>>

\* C22: unsubscribe and subscribe delete no subscription record; an
\* unsubscribe of an email that has a record is answered 200 and leaves that
\* record inactive with unsubscribedAt recorded and every other record as it
\* was; an unsubscribe of an email without a record is answered 200 and
\* changes nothing; a subscribe of an email whose record is inactive makes
\* that same record active with unsubscribedAt cleared and adds no record
C22_UnsubscribeKeepsRecord ==
    LET before == last.cur.before
        s == findOneSubscription(before, cleanEmailOf(last.cur.email))
    IN  (last.cur.op \in {"subscribe", "unsubscribe"} /\ last.cur.status # 400) =>
          /\ last.cur.status = 200
          /\ Len(subscriptions) >= Len(before)
          /\ \A i \in 1..Len(before) :
                 subscriptions[i].email = before[i].email
          /\ (last.cur.op = "unsubscribe" /\ s # 0) =>
                 /\ Len(subscriptions) = Len(before)
                 /\ ~subscriptions[s].isActive
                 /\ subscriptions[s].unsubscribedAt # "null"
                 /\ \A i \in 1..Len(before) :
                        i # s => subscriptions[i] = before[i]
          /\ (last.cur.op = "unsubscribe" /\ s = 0) => subscriptions = before
          /\ (last.cur.op = "subscribe" /\ s # 0) =>
                 /\ Len(subscriptions) = Len(before)
                 /\ subscriptions[s].isActive
                 /\ subscriptions[s].unsubscribedAt = "null"

\* a subscribe found the inactive record of an unsubscribed email among two
\* records and made it active again
C22_Witness ==
    LET before == last.cur.before
        s == findOneSubscription(before, cleanEmailOf(last.cur.email))
    IN  /\ last.cur.op = "subscribe" /\ last.cur.status = 200
        /\ Len(before) = 2 /\ s # 0
        /\ ~before[s].isActive /\ before[s].unsubscribedAt = "date"
        /\ subscriptions[s].isActive

\* ------------------------------------------------------------------------
\* Concurrent registration at the dual-backend server while MongoDB is
\* connected: a handler runs from one await to the next as one step, and the
\* steps of different requests interleave
\* ------------------------------------------------------------------------
\* a request slot of POST /api/auth/register: email is the email of the body,
\* found the user findOne returned (0 for null), visitCount the visitCount of
\* that document
RegSlot(pc, email, found, visitCount, status, userId) ==
    [pc |-> pc, email |-> email, found |-> found, visitCount |-> visitCount,
     status |-> status, userId |-> userId]

RegIdle == RegSlot("idle", <<>>, 0, 0, 0, 0)

InitDualConc ==
    /\ authModule = "documents"
    /\ users = <<>>
    /\ connected = TRUE
    /\ events = [e \in SampleEventIds |-> SampleEvent]
    /\ eventClicks = <<>>
    /\ visits = <<>>
    /\ subscriptions = <<>>
    /\ last = [cur |-> NoRequest, prev |-> NoRequest, changed |-> FALSE]
    /\ reqs = [r \in 1..MaxReqs |-> RegIdle]
    /\ file = initialData
    /\ fileReqs = [r \in 1..MaxReqs |-> FileIdle]
    /\ memoryStorage = emptyMemory

\* the request arrives and its email is validated
RegArrives(r, email) ==
    /\ reqs[r].pc = "idle"
    /\ reqs' = [reqs EXCEPT ![r] =
                  IF InvalidEmail(email)
                  THEN RegSlot("done", email, 0, 0, 400, 0)
                  ELSE RegSlot("findOne", email, 0, 0, 0, 0)]
    /\ UNCHANGED <<authModule, users, events, eventClicks, last, fileVars,
                   dualVars, engageVars>>

\* let user = await User.findOne({ email: cleanEmail })
RegFindOne(r) ==
    /\ reqs[r].pc = "findOne"
    /\ LET found == findOneUser(users, cleanEmailOf(reqs[r].email)) IN
       reqs' = [reqs EXCEPT ![r].pc = "save", ![r].found = found,
                            ![r].visitCount =
                                IF found # 0 THEN users[found].visitCount ELSE 0]
    /\ UNCHANGED <<authModule, users, events, eventClicks, last, fileVars,
                   dualVars, engageVars>>

\* await user.save() of the user that was found: visitCount is set to the
\* value the handler computed
RegSaveExisting(r) ==
    /\ reqs[r].pc = "save" /\ reqs[r].found # 0
    /\ reqs[r].visitCount + 1 <= MaxVisits
    /\ users' = [users EXCEPT ![reqs[r].found].visitCount = reqs[r].visitCount + 1]
    /\ reqs' = [reqs EXCEPT ![r].pc = "done", ![r].status = 200,
                            ![r].userId = reqs[r].found]
    /\ UNCHANGED <<authModule, events, eventClicks, last, fileVars,
                   dualVars, engageVars>>

\* await user.save() of a new user, accepted by the unique index on email
RegInsert(r) ==
    /\ reqs[r].pc = "save" /\ reqs[r].found = 0
    /\ findOneUser(users, cleanEmailOf(reqs[r].email)) = 0
    /\ users' = Append(users, NewUser(cleanEmailOf(reqs[r].email)))
    /\ reqs' = [reqs EXCEPT ![r].pc = "done", ![r].status = 200,
                            ![r].userId = Len(users) + 1]
    /\ UNCHANGED <<authModule, events, eventClicks, last, fileVars,
                   dualVars, engageVars>>

\* await user.save() of a new user, rejected by the unique index on email:
\* catch (dbError) logs, and the handler goes on with the memory storage
RegInsertRejected(r) ==
    /\ reqs[r].pc = "save" /\ reqs[r].found = 0
    /\ findOneUser(users, cleanEmailOf(reqs[r].email)) # 0
    /\ LET m == dualRegister(users, memoryStorage, FALSE, reqs[r].email) IN
       /\ \A e \in DOMAIN m.memoryStorage.users :
             m.memoryStorage.users[e].visitCount <= MaxVisits
       /\ memoryStorage' = m.memoryStorage
       /\ reqs' = [reqs EXCEPT ![r].pc = "done", ![r].status = m.status,
                               ![r].userId = m.userId]
    /\ UNCHANGED <<authModule, users, events, eventClicks, last, fileVars,
                   connected, engageVars>>

NextDualConc ==
    \/ \E r \in 1..MaxReqs, email \in RawEmails : RegArrives(r, email)
    \/ \E r \in 1..MaxReqs : RegFindOne(r)
    \/ \E r \in 1..MaxReqs : RegSaveExisting(r)
    \/ \E r \in 1..MaxReqs : RegInsert(r)
    \/ \E r \in 1..MaxReqs : RegInsertRejected(r)

SpecDualConc == InitDualConc /\ [][NextDualConc]_vars

\* the user records, in MongoDB and in memory, whose email is cleanEmail
ActorCount(cleanEmail) ==
    Cardinality({i \in 1..Len(users) : users[i].email = cleanEmail})
    + (IF cleanEmail \in DOMAIN memoryStorage.users THEN 1 ELSE 0)

\* C16: there is at most one user record per normalized email, also after
\* concurrent registrations of emails that differ only in case or whitespace
C16_OneActorPerEmail ==
    \A email \in RawEmails : ActorCount(cleanEmailOf(email)) <= 1

\* ------------------------------------------------------------------------
\* The server with the in-memory development storage: register is served from
\* MongoDB when the connection is up and from memoryStorage.users (an array)
\* otherwise.  Requests are handled one at a time.
\* ------------------------------------------------------------------------
\* memoryStorage.users.find(u => u.email === cleanEmail)
findMemoryByEmail(list, cleanEmail) ==
    IF \E i \in 1..Len(list) : list[i].email = cleanEmail
    THEN CHOOSE i \in 1..Len(list) : list[i].email = cleanEmail
    ELSE 0

\* POST /api/auth/register
simpleRegister(coll, mem, isConnected, email) ==
    IF InvalidEmail(email) THEN DualReply(coll, mem, 400, 0, <<>>)
    ELSE LET cleanEmail == cleanEmailOf(email) IN
         IF isConnected
         THEN LET id == findOneUser(coll, cleanEmail) IN
              IF id # 0
              THEN DualReply(coll, mem, 200, id, coll[id].savedEvents)
              ELSE DualReply(Append(coll, NewUser(cleanEmail)), mem,
                             200, Len(coll) + 1, <<>>)
         ELSE LET i == findMemoryByEmail(mem.users, cleanEmail) IN
              IF i # 0
              THEN DualReply(coll, [mem EXCEPT !.users[i].visitCount = @ + 1],
                             200, memoryId(i), mem.users[i].savedEvents)
              ELSE DualReply(coll,
                             [mem EXCEPT !.users =
                                 Append(@, [id |-> memoryId(Len(mem.users) + 1),
                                            email |-> cleanEmail,
                                            savedEvents |-> <<>>,
                                            visitCount |-> 1])],
                             201, memoryId(Len(mem.users) + 1), <<>>)

\* the visitCount of the user with the email in the storage that serves the
\* requests, 0 when it has no such user
visitCountIn(coll, mem, isConnected, cleanEmail) ==
    IF isConnected
    THEN (IF findOneUser(coll, cleanEmail) # 0
          THEN coll[findOneUser(coll, cleanEmail)].visitCount ELSE 0)
    ELSE (IF findMemoryByEmail(mem.users, cleanEmail) # 0
          THEN mem.users[findMemoryByEmail(mem.users, cleanEmail)].visitCount
          ELSE 0)

\* the record of a handled register: HTTP status, normalized email, whether
\* MongoDB served it, whether the serving storage had a user with the email,
\* that user's visitCount and the number of user records before the request
RegisterRequest(status, cleanEmail, isConnected, before, recordsBefore) ==
    [op |-> "register", status |-> status, email |-> cleanEmail,
     mongo |-> isConnected, existed |-> before > 0, before |-> before,
     recordsBefore |-> recordsBefore]

InitSimple ==
    /\ authModule = "simplified"
    /\ users = <<>>
    /\ connected \in BOOLEAN
    /\ events = [e \in SampleEventIds |-> SampleEvent]
    /\ eventClicks = <<>>
    /\ visits = <<>>
    /\ subscriptions = <<>>
    /\ last = [cur |-> NoRequest, prev |-> NoRequest, changed |-> FALSE]
    /\ reqs = [r \in 1..MaxReqs |-> Idle]
    /\ file = initialData
    /\ fileReqs = [r \in 1..MaxReqs |-> FileIdle]
    /\ memoryStorage = emptyMemory

SimpleRegister(email) ==
    LET r == simpleRegister(users, memoryStorage, connected, email) IN
    /\ \A i \in 1..Len(r.memoryStorage.users) :
          r.memoryStorage.users[i].visitCount <= MaxVisits
    /\ users' = r.users
    /\ memoryStorage' = r.memoryStorage
    /\ last' = [cur |-> RegisterRequest(r.status, cleanEmailOf(email), connected,
                           visitCountIn(users, memoryStorage, connected,
                                        cleanEmailOf(email)),
                           Len(users) + Len(memoryStorage.users)),
                prev |-> NoRequest,
                changed |-> (r.users # users \/ r.memoryStorage # memoryStorage)]
    /\ UNCHANGED <<authModule, events, eventClicks, reqs, fileVars, connected,
                   engageVars>>

NextSimple ==
    \/ \E email \in RawEmails : SimpleRegister(email)
    \/ Disconnect
    \/ Reconnect

SpecSimple == InitSimple /\ [][NextSimple]_vars

\* C17 (its effect on the stored users): a register of the email of an existing
\* user raises that user's visitCount by exactly 1 and creates no user; a
\* register of an unknown email creates exactly one user, with visitCount 1
C17_RegisterCountsVisit ==
    (last.cur.op = "register" /\ last.cur.status \in {200, 201}) =>
        IF last.cur.existed
        THEN /\ Len(users) + Len(memoryStorage.users) = last.cur.recordsBefore
             /\ visitCountIn(users, memoryStorage, last.cur.mongo, last.cur.email)
                    = last.cur.before + 1
        ELSE /\ Len(users) + Len(memoryStorage.users) = last.cur.recordsBefore + 1
             /\ visitCountIn(users, memoryStorage, last.cur.mongo, last.cur.email) = 1

\* C23: a save or unsave with the token of a user that register stored in
\* MongoDB (which it does only while the connection is up) is never answered
\* 404, whether the connection is still up or has dropped since
C23_FallbackContinuity ==
    [][\A token \in DualCredentials, eventId \in DualEventIds \ {""} :
          (/\ token.kind = "jwt" /\ token.userId \in 1..Len(users)
           /\ (DualSaveEvent(token, eventId) \/ DualUnsaveEvent(token, eventId)))
          => last'.cur.status # 404]_vars

\* C24: no register, save, unsave or click is answered 500: a store call
\* that fails is not reported to the caller as a failure of the request
C24_StoreFailureNotSurfaced ==
    last.cur.op \in {"register", "save", "unsave", "click"} =>
        last.cur.status # 500

\* GET /api/admin/dashboard: the MongoDB block fills eventClicks only, so
\* metrics.totalUsers is still 0 when the fallback is tested and the users,
\* the totals and the event clicks are always those of memoryStorage
dualDashboard(mem) ==
    [totalUsers |-> Cardinality(DOMAIN mem.users),
     users |-> [m \in DOMAIN mem.users |-> mem.users[m].savedEvents],
     eventClicks |-> mem.eventClicks]

\* C26: the dashboard lists every user that register has stored, in MongoDB
\* or in memory, with the events that user has saved, and counts them all
C26_SnapshotIncludesWrites ==
    LET d == dualDashboard(memoryStorage) IN
    /\ \A i \in 1..Len(users) :
          /\ users[i].email \in DOMAIN d.users
          /\ d.users[users[i].email] = users[i].savedEvents
    /\ d.totalUsers >= Len(users)

\* C20: the userId of every token that register has returned is the id of the
\* user record register returned it for (the record with the token's email)
C20_CredentialIdentifiesActor ==
    \A token \in DualCredentials :
        token.kind = "jwt" =>
            \/ /\ token.userId \in 1..Len(users)
               /\ users[token.userId].email = token.email
            \/ /\ token.email \in DOMAIN memoryStorage.users
               /\ memoryStorage.users[token.email].id = token.userId

\* ------------------------------------------------------------------------
\* The weekly reminder emails of the file-backed server, handled one request
\* at a time.  An entry of data.weeklyEmails is an object { email, timestamp }
\* (kind "object"); a bare string would be an entry of kind "string".
\* ------------------------------------------------------------------------
\* data.weeklyEmails.includes(email): some entry is strictly equal to the
\* string, which an object never is
weeklyEmailsIncludes(list, email) ==
    \E i \in 1..Len(list) : list[i].kind = "string" /\ list[i].email = email

\* POST /api/emails
submitEmail(data, email) ==
    IF InvalidEmail(email) THEN [data |-> data, status |-> 400]
    ELSE IF ~weeklyEmailsIncludes(data.weeklyEmails, email)
    THEN [data |-> [data EXCEPT !.weeklyEmails =
                       Append(@, [kind |-> "object", email |-> email])],
          status |-> 200]
    ELSE [data |-> data, status |-> 200]

SubmitEmail(email) ==
    LET r == submitEmail(file, email) IN
    /\ Len(r.data.weeklyEmails) <= MaxEmails
    /\ file' = r.data
    /\ last' = [cur |-> SubRequest("emails", r.status, email, 0, <<>>),
                prev |-> NoRequest, changed |-> r.data # file]
    /\ UNCHANGED <<authModule, users, events, eventClicks, reqs, fileReqs,
                   dualVars, engageVars>>

NextMail == \E email \in RawEmails : SubmitEmail(email)

SpecMail == InitFile /\ [][NextMail]_vars

\* the entries of the list that carry the email
EntriesOf(list, email) == {i \in 1..Len(list) : list[i].email = email}

\* C21: the subscription list holds at most one record per email, however
\* often the email is submitted
C21_OneSubscriptionPerEmail ==
    \A email \in RawEmails :
        Cardinality(EntriesOf(file.weeklyEmails, email)) <= 1

\* ------------------------------------------------------------------------
\* The two storages of the server with the development storage, side by
\* side: every register request is served once by the MongoDB branch (into
\* users) and once by the memory branch (into memoryStorage), so that the
\* two runs handle the same sequence of requests from the start.
\* ------------------------------------------------------------------------
InitBoth == InitSimple /\ connected

\* the emails of the register requests
BothEmails == RawEmails \cup { <<"c", "@", "x">> }

BothRegister(email) ==
    LET onMongo == simpleRegister(users, emptyMemory, TRUE, email)
        onMemory == simpleRegister(<<>>, memoryStorage, FALSE, email)
    IN  /\ \A i \in 1..Len(onMemory.memoryStorage.users) :
              onMemory.memoryStorage.users[i].visitCount <= MaxVisits
        /\ users' = onMongo.users
        /\ memoryStorage' = onMemory.memoryStorage
        /\ last' = [cur |-> [op |-> "register", email |-> cleanEmailOf(email),
                             status |-> onMongo.status,
                             memoryStatus |-> onMemory.status],
                    prev |-> NoRequest, changed |-> TRUE]
        /\ UNCHANGED <<authModule, events, eventClicks, reqs, fileVars,
                       connected, engageVars>>

NextBoth == \E email \in BothEmails : BothRegister(email)

SpecBoth == InitBoth /\ [][NextBoth]_vars

\* C25: the two storages answer every register with the same status and
\* hold the same visitCount for every email
C25_BackendsIndistinguishable ==
    /\ last.cur.op = "register" => last.cur.status = last.cur.memoryStatus
    /\ \A email \in BothEmails :
          visitCountIn(users, memoryStorage, TRUE, cleanEmailOf(email))
              = visitCountIn(users, memoryStorage, FALSE, cleanEmailOf(email))

\* ------------------------------------------------------------------------
\* The export of the MongoDB server while registrations arrive: the handler
\* builds exportData with one query after the other, each behind its own
\* await, and a register request can be handled between two of them.  last
\* holds the export in progress: the users it has read and the total.
\* ------------------------------------------------------------------------
\* GET /api/admin/export up to users: await User.find().select('-__v').lean()
ExportFindUsers ==
    /\ IF last.cur.op = "export" THEN last.cur.pc = "done" ELSE TRUE
    /\ last' = [cur |-> [op |-> "export", pc |-> "summary", status |-> 0,
                         users |-> users, totalUsers |-> 0],
                prev |-> NoRequest, changed |-> FALSE]
    /\ UNCHANGED <<authModule, users, events, eventClicks, reqs, fileVars,
                   dualVars, engageVars>>

\* summary.totalUsers: await User.countDocuments(); then res.json(exportData)
ExportCountUsers ==
    /\ last.cur.op = "export" /\ last.cur.pc = "summary"
    /\ last' = [last EXCEPT !.cur.pc = "done", !.cur.status = 200,
                            !.cur.totalUsers = Len(users)]
    /\ UNCHANGED <<authModule, users, events, eventClicks, reqs, fileVars,
                   dualVars, engageVars>>

\* POST /api/auth/register, handled while the export may stand at an await
SnapRegister(email) ==
    LET r == register(DB, email) IN
    /\ \A i \in 1..Len(r.db.users) : r.db.users[i].visitCount <= MaxVisits
    /\ users' = r.db.users
    /\ UNCHANGED <<authModule, events, eventClicks, last, reqs, fileVars,
                   dualVars, engageVars>>

NextSnap ==
    \/ ExportFindUsers
    \/ ExportCountUsers
    \/ \E email \in RawEmails : SnapRegister(email)

SpecSnap == InitSub /\ [][NextSnap]_vars

\* C27: the values of one export belong to one state of the store: the total
\* of users it reports is the number of users it lists
C27_SnapshotIsPointInTime ==
    (last.cur.op = "export" /\ last.cur.pc = "done") =>
        last.cur.totalUsers = Len(last.cur.users)

\* ------------------------------------------------------------------------
\* The reports of the MongoDB server.  The reports are functions of the
\* stored users and visits and of the time of the request, so the stored
\* documents are drawn from bounded sets and each request builds its report.
\* A date is held as its age: the number of whole days between it and the
\* request.  register sets firstVisit and lastVisit to the same instant and
\* later requests move lastVisit only, so lastVisit is never older than
\* firstVisit.
\* ------------------------------------------------------------------------
Ages == {0, 2, 8, 40}

ReportEmails == << <<"a", "@", "x">>, <<"b", "@", "x">>, <<"c", "@", "x">> >>

\* the User collections the reports are built from
ReportUsers ==
    UNION { { [i \in 1..n |->
                 [email |-> ReportEmails[i], savedEvents |-> <<>>,
                  visitCount |-> 1,
                  firstVisit |-> f[i][1], lastVisit |-> f[i][2]]] :
              f \in [1..n -> {a \in Ages \X Ages : a[2] <= a[1]}] } :
            n \in 0..MaxDocs }

\* the Visit collections the reports are built from
ReportVisits ==
    UNION { { [i \in 1..n |-> [isReturning |-> f[i]]] :
              f \in [1..n -> BOOLEAN] } : n \in 0..MaxDocs }

\* a rate computed without looking at the divisor: 0 / 0 is NaN (held as -1)
percentUnguarded(part, total) ==
    IF total = 0 THEN 0 - 1 ELSE (200 * part + total) \div (2 * total)

\* total > 0 ? Math.round((part / total) * 100) : 0
percent(part, total) ==
    IF total > 0 THEN (200 * part + total) \div (2 * total) ELSE 0

\* User.countDocuments({ lastVisit: { $gte: <days ago> } })
countActive(coll, days) ==
    Cardinality({i \in 1..Len(coll) : coll[i].lastVisit <= days})

\* calculateRetention()
calculateRetention(coll) ==
    [d7Retention |-> percent(countActive(coll, 7), Len(coll)),
     d30Retention |-> percent(countActive(coll, 30), Len(coll)),
     d7Active |-> countActive(coll, 7),
     d30Active |-> countActive(coll, 30),
     totalUsers |-> Len(coll)]

ReportReply(coll, vis, status, body) ==
    [users |-> coll, visits |-> vis, status |-> status, body |-> body]

\* an analytics request that counts as a visit of every user
analyticsTouching(coll, vis, granted) ==
    IF ~granted THEN ReportReply(coll, vis, 403, <<>>)
    ELSE ReportReply([i \in 1..Len(coll) |-> [coll[i] EXCEPT !.lastVisit = 0]],
                     vis, 200, calculateRetention(coll))

\* GET /api/admin/analytics (its userRetention)
analytics(coll, vis, granted) ==
    IF ~granted THEN ReportReply(coll, vis, 403, <<>>)
    ELSE ReportReply(coll, vis, 200, calculateRetention(coll))

\* GET /api/admin/dashboard (its metrics); avgVisitsPerUser is held in
\* hundredths, as toFixed(2) rounds it
dashboard(coll, vis, granted) ==
    LET totalUsers == Len(coll)
        totalVisits == Len(vis)
        returningVisits ==
            Cardinality({i \in 1..Len(vis) : vis[i].isReturning})
    IN  IF ~granted THEN ReportReply(coll, vis, 403, <<>>)
        ELSE ReportReply(coll, vis, 200,
               [totalUsers |-> totalUsers,
                activeUsers |-> countActive(coll, 30),
                totalVisits |-> totalVisits,
                returnRate |-> percent(returningVisits, totalVisits),
                avgVisitsPerUser |->
                    IF totalUsers > 0
                    THEN (200 * totalVisits + totalUsers) \div (2 * totalUsers)
                    ELSE 0])

InitReport ==
    /\ authModule = "documents"
    /\ users \in ReportUsers
    /\ visits \in ReportVisits
    /\ events = [e \in SampleEventIds |-> SampleEvent]
    /\ eventClicks = <<>>
    /\ subscriptions = <<>>
    /\ last = [cur |-> NoRequest, prev |-> NoRequest, changed |-> FALSE]
    /\ reqs = [r \in 1..MaxReqs |-> Idle]
    /\ file = initialData
    /\ fileReqs = [r \in 1..MaxReqs |-> FileIdle]
    /\ connected = TRUE
    /\ memoryStorage = emptyMemory

\* the request is handled: the collections are what the handler left, and
\* last holds the response and the collections before the request
Report(op, granted, r) ==
    /\ users' = r.users
    /\ visits' = r.visits
    /\ last' = [cur |-> [op |-> op, granted |-> granted, status |-> r.status,
                         body |-> r.body,
                         before |-> [users |-> users, visits |-> visits]],
                prev |-> NoRequest,
                changed |-> (r.users # users \/ r.visits # visits)]
    /\ UNCHANGED <<authModule, events, eventClicks, subscriptions, reqs,
                   fileVars, dualVars>>

Analytics(granted) == Report("analytics", granted, analytics(users, visits, granted))

Dashboard(granted) == Report("dashboard", granted, dashboard(users, visits, granted))

NextReport ==
    \/ \E granted \in BOOLEAN : Analytics(granted)
    \/ \E granted \in BOOLEAN : Dashboard(granted)

SpecReport == InitReport /\ [][NextReport]_vars

C29_RetentionExcludesYoungCohorts ==
    LET coll == last.cur.before.users
        aged(days) == {i \in 1..Len(coll) : coll[i].firstVisit >= days}
        retained(days) == {i \in aged(days) : coll[i].lastVisit <= days}
    IN  (last.cur.op = "analytics" /\ last.cur.status = 200) =>
          /\ last.cur.body.d7Retention =
                 percent(Cardinality(retained(7)), Cardinality(aged(7)))
          /\ last.cur.body.d30Retention =
                 percent(Cardinality(retained(30)), Cardinality(aged(30)))

C31_CrossKeyIndependent ==
    (\A r \in 1..MaxReqs : fileReqs[r].pc = "done") =>
        \A r \in 1..MaxReqs :
            fileReqs[r].status = 200 =>
                IF fileReqs[r].op = "save"
                THEN savedInData(file, fileReqs[r].email, fileReqs[r].eventId)
                ELSE clickCountInFile(fileReqs[r].eventId) >= 1


\* C32: the backend serving requests never switches back: after a register
\* that was served by memoryStorage (the connection was down, the actor got a
\* memory id), a later register is served by memoryStorage too
C32_BackendSelectionMonotone ==
    [][(/\ last.cur.op = "register" /\ last.cur.status = 200
        /\ last.cur.userId < 0
        /\ last'.cur.op = "register" /\ last'.cur.status = 200
        /\ (users' # users \/ memoryStorage' # memoryStorage))
       => last'.cur.userId < 0]_vars


\* ------------------------------------------------------------------------
\* The visit tracker of the file-backed server (src/server.js, POST
\* /api/visits), from the empty data file, one request at a time: a request
\* reads the file, changes the object and writes it back before the next
\* request starts.  The instant of a request is an input; the clock never
\* runs backwards.
\* ------------------------------------------------------------------------
\* names that every object inherits from Object.prototype:
\* data.userSessions[name] is truthy for them in an object with no entries
InheritedKeys == {"constructor"}

\* req.body.userId: an id the client holds, or none
VisitUserIds == {"u1", "u2", "constructor", ""}

VisitInstants == {0, 1, 2}

\* 'user_' + Date.now() + '_' + Math.random()...: an id no entry has
generatedUserId(n) == <<"user_1", "user_2", "user_3", "user_4">>[n]

\* the index of the entry of the id in userSessions, 0 when it has none
findSession(sessions, userId) ==
    IF \E i \in 1..Len(sessions) : sessions[i].userId = userId
    THEN CHOOSE i \in 1..Len(sessions) : sessions[i].userId = userId
    ELSE 0

\* data.userSessions[userId] is truthy
sessionTruthy(sessions, userId) ==
    findSession(sessions, userId) # 0 \/ userId \in InheritedKeys

\* POST /api/visits: the data written back and the response
trackVisitInFile(data, userId, isNewUser, now) ==
    LET currentUserId ==
            IF userId = "" THEN generatedUserId(data.visitStats.totalVisits + 1)
            ELSE userId
        isFirstVisit == isNewUser /\ ~sessionTruthy(data.userSessions, currentUserId)
        \* if (isNewUser && !data.userSessions[currentUserId])
        tracked ==
            IF isFirstVisit
            THEN Append(data.userSessions,
                        [userId |-> currentUserId, firstVisit |-> now,
                         visits |-> 0, lastVisit |-> 0 - 1])
            ELSE data.userSessions
        i == findSession(tracked, currentUserId)
        \* if (data.userSessions[currentUserId]) visits += 1 else create:
        \* for an inherited name the update lands on the inherited object,
        \* which is no entry of userSessions and is not written to the file
        updated ==
            IF i # 0
            THEN [tracked EXCEPT ![i].visits = @ + 1, ![i].lastVisit = now]
            ELSE IF sessionTruthy(tracked, currentUserId) THEN tracked
            ELSE Append(tracked,
                        [userId |-> currentUserId, firstVisit |-> now,
                         visits |-> 1, lastVisit |-> now])
        stats == data.visitStats
    IN  [data |-> [data EXCEPT
                     !.userSessions = updated,
                     !.visitStats =
                        [firstVisits |-> stats.firstVisits + (IF isFirstVisit THEN 1 ELSE 0),
                         returnVisits |-> stats.returnVisits + (IF isFirstVisit THEN 0 ELSE 1),
                         totalVisits |-> stats.totalVisits + 1,
                         uniqueUsers |-> IF Len(updated) # Len(data.userSessions)
                                         THEN Len(updated) ELSE stats.uniqueUsers,
                         lastVisit |-> now]],
         status |-> 200, userId |-> currentUserId, isFirstVisit |-> isFirstVisit]

FileVisit(userId, isNewUser, now) ==
    LET r == trackVisitInFile(file, userId, isNewUser, now) IN
    /\ file.visitStats.totalVisits < MaxVisits
    /\ now >= file.visitStats.lastVisit
    /\ file' = r.data
    /\ last' = [cur |-> [op |-> "visit", status |-> r.status, userId |-> r.userId,
                         isFirstVisit |-> r.isFirstVisit, asked |-> userId],
                prev |-> NoRequest, changed |-> TRUE]
    /\ UNCHANGED <<authModule, users, events, eventClicks, reqs, fileReqs,
                   dualVars, engageVars>>

NextVisits ==
    \E userId \in VisitUserIds, isNewUser \in BOOLEAN, now \in VisitInstants :
        FileVisit(userId, isNewUser, now)

SpecVisits == InitFile /\ [][NextVisits]_vars

\* the sum of userSessions[*].visits
RECURSIVE SumVisits(_)
SumVisits(sessions) ==
    IF sessions = <<>> THEN 0
    ELSE Head(sessions).visits + SumVisits(Tail(sessions))

\* C35: in the file-backed visit tracker, visitStats.totalVisits is the sum of
\* the visits of the user sessions and visitStats.uniqueUsers is the number of
\* user sessions
C35_VisitStatsMatchSessions ==
    /\ file.visitStats.totalVisits = SumVisits(file.userSessions)
    /\ file.visitStats.uniqueUsers = Len(file.userSessions)


\* ------------------------------------------------------------------------
\* The retention report of the file-backed server (src/server.js, GET
\* /api/analytics/retention) over the user sessions a data file can hold: a
\* few sessions with first and last visits on both sides of each window, or
\* one new user a day for many days.  An instant is a number of half days
\* since midnight UTC of day 0, so a calendar day is two instants long.
\* ------------------------------------------------------------------------
MaxSessions == 11

\* 24 * 60 * 60 * 1000 ms, in instants
Day == 2

\* Object.values(cohorts).slice(-10)
CohortsShown == 10

RetentionInstants == {0, 1, 2, 48, 60, 61, 62}

\* the instants of the report
RetentionNows == {62, 63}

RetentionUserIds ==
    <<"u1", "u2", "u3", "u4", "u5", "u6", "u7", "u8", "u9", "u10", "u11", "u12">>

\* the userSessions a sequence of visit requests leaves in the file: a
\* session with one visit has lastVisit = firstVisit
RetentionSessions(maxFew, maxDaily) ==
    LET shapes == {s \in RetentionInstants \X RetentionInstants \X {1, 2} :
                      s[2] >= s[1] /\ (s[3] = 1 => s[2] = s[1])}
        few == UNION { { [i \in 1..n |->
                            [userId |-> RetentionUserIds[i], firstVisit |-> f[i][1],
                             visits |-> f[i][3], lastVisit |-> f[i][2]]] :
                         f \in [1..n -> shapes] } : n \in 0..maxFew }
        daily == { [i \in 1..n |->
                      [userId |-> RetentionUserIds[i], firstVisit |-> Day * i,
                       visits |-> 1, lastVisit |-> Day * i]] :
                   n \in 0..maxDaily }
    IN  few \cup daily

\* the latest lastVisit of the sessions, the null date when there is none
RECURSIVE latestVisit(_)
latestVisit(sessions) ==
    IF sessions = <<>> THEN 0 - 1
    ELSE LET rest == latestVisit(Tail(sessions))
         IN  IF Head(sessions).lastVisit > rest THEN Head(sessions).lastVisit
             ELSE rest

\* users.filter(user => user.lastVisit && new Date(user.lastVisit) > <days ago>)
activeSince(sessions, now, days) ==
    Cardinality({i \in 1..Len(sessions) :
                    /\ sessions[i].lastVisit # 0 - 1
                    /\ sessions[i].lastVisit > now - days * Day})

\* new Date(user.firstVisit).toISOString().split('T')[0]: the UTC calendar day
firstVisitDate(user) == user.firstVisit \div Day

\* the keys of cohorts, in the order users.forEach creates them
RECURSIVE cohortDates(_)
cohortDates(sessions) ==
    IF sessions = <<>> THEN <<>>
    ELSE LET n == Len(sessions)
             rest == cohortDates(SubSeq(sessions, 1, n - 1))
             date == firstVisitDate(sessions[n])
         IN  IF \E k \in 1..Len(rest) : rest[k] = date THEN rest
             ELSE Append(rest, date)

\* cohorts[date] after users.forEach
cohortOf(sessions, now, date) ==
    LET members == {i \in 1..Len(sessions) : firstVisitDate(sessions[i]) = date}
        returned(days) ==
            Cardinality({i \in members :
                            /\ sessions[i].visits > 1
                            /\ (now - sessions[i].firstVisit) \div Day >= days})
    IN  [date |-> date, totalUsers |-> Cardinality(members),
         returnedDay1 |-> returned(1), returnedDay7 |-> returned(7),
         returnedDay30 |-> returned(30)]

\* GET /api/analytics/retention
retention(data, now) ==
    LET sessions == data.userSessions
        dates == cohortDates(sessions)
        all == [k \in 1..Len(dates) |-> cohortOf(sessions, now, dates[k])]
        from == IF Len(all) > CohortsShown THEN Len(all) - CohortsShown + 1 ELSE 1
        sliced == SubSeq(all, from, Len(all))
    IN  [status |-> 200,
         metrics |-> [totalUniqueUsers |-> Len(sessions),
                      dailyActiveUsers |-> activeSince(sessions, now, 1),
                      weeklyActiveUsers |-> activeSince(sessions, now, 7),
                      monthlyActiveUsers |-> activeSince(sessions, now, 30),
                      totalVisits |-> data.visitStats.totalVisits],
         cohorts |-> [k \in 1..Len(sliced) |-> sliced[Len(sliced) + 1 - k]]]

InitRetention ==
    /\ authModule = "documents"
    /\ users = <<>>
    /\ events = [e \in SampleEventIds |-> SampleEvent]
    /\ eventClicks = <<>>
    /\ last = [cur |-> NoRequest, prev |-> NoRequest, changed |-> FALSE]
    /\ reqs = [r \in 1..MaxReqs |-> Idle]
    /\ \E sessions \in RetentionSessions(MaxDocs, MaxSessions) :
          file = [initialData EXCEPT
                    !.userSessions = sessions,
                    !.visitStats =
                        [firstVisits |-> Len(sessions),
                         returnVisits |-> SumVisits(sessions) - Len(sessions),
                         totalVisits |-> SumVisits(sessions),
                         uniqueUsers |-> Len(sessions),
                         lastVisit |-> latestVisit(sessions)]]
    /\ fileReqs = [r \in 1..MaxReqs |-> FileIdle]
    /\ connected = TRUE
    /\ memoryStorage = emptyMemory
    /\ visits = <<>>
    /\ subscriptions = <<>>

FileRetention(now) ==
    LET r == retention(file, now) IN
    /\ now >= file.visitStats.lastVisit
    /\ last' = [cur |-> [op |-> "retention", status |-> r.status, now |-> now,
                         metrics |-> r.metrics, cohorts |-> r.cohorts],
                prev |-> NoRequest, changed |-> FALSE]
    /\ UNCHANGED <<authModule, users, events, eventClicks, reqs, fileVars,
                   dualVars, engageVars>>

NextRetention == \E now \in RetentionNows : FileRetention(now)

SpecRetention == InitRetention /\ [][NextRetention]_vars

\* C33: the daily, weekly and monthly active counts of a retention report are
\* the numbers of users whose last visit is at or after the report instant
\* minus 1, 7 and 30 days, the boundary included
C33_ActiveCountsIncludeBoundary ==
    last.cur.op = "retention" =>
        LET since(days) ==
                Cardinality({i \in 1..Len(file.userSessions) :
                    file.userSessions[i].lastVisit >= last.cur.now - days * Day})
        IN  /\ last.cur.metrics.dailyActiveUsers = since(1)
            /\ last.cur.metrics.weeklyActiveUsers = since(7)
            /\ last.cur.metrics.monthlyActiveUsers = since(30)

\* C36: in a retention report every cohort has returnedDay30 <= returnedDay7
\* <= returnedDay1 <= totalUsers, and every user is counted in exactly one
\* cohort of the report, the one of the calendar day of the first visit
C36_CohortsPartitionUsers ==
    last.cur.op = "retention" =>
        LET cohorts == last.cur.cohorts
            sessions == file.userSessions
        IN  /\ \A k \in 1..Len(cohorts) :
                  /\ cohorts[k].returnedDay30 <= cohorts[k].returnedDay7
                  /\ cohorts[k].returnedDay7 <= cohorts[k].returnedDay1
                  /\ cohorts[k].returnedDay1 <= cohorts[k].totalUsers
            /\ \A i \in 1..Len(sessions) :
                  /\ Cardinality({k \in 1..Len(cohorts) :
                        cohorts[k].date = firstVisitDate(sessions[i])}) = 1
                  /\ \A k \in 1..Len(cohorts) :
                        cohorts[k].date = firstVisitDate(sessions[i]) =>
                            cohorts[k].totalUsers =
                                Cardinality({j \in 1..Len(sessions) :
                                    firstVisitDate(sessions[j]) =
                                        firstVisitDate(sessions[i])})


\* C34: the click log and the visit log are append-only: every step leaves
\* the records already in EventClick and in Visit as they are, in place, and
\* only adds records after them
C34_LogsAppendOnly ==
    [][/\ Len(eventClicks') >= Len(eventClicks)
       /\ SubSeq(eventClicks', 1, Len(eventClicks)) = eventClicks
       /\ Len(visits') >= Len(visits)
       /\ SubSeq(visits', 1, Len(visits)) = visits]_vars

\* a visit was recorded for a session that already had a record, with a click
\* in the log
C34_Witness ==
    /\ last.cur.op = "visit" /\ last.cur.status = 200
    /\ Len(visits) >= 2 /\ visits[1].sessionId = visits[2].sessionId
    /\ Len(eventClicks) >= 1


\* ------------------------------------------------------------------------
\* The catalog of the dual-backend server (src/unnamed/part_001) with MongoDB
\* connected, from an empty Event collection: the app.listen callback checks
\* the catalog and seeds it while the server already accepts requests, and
\* POST /api/events/click runs from one await to the next as one step.  Slot 0
\* is the app.listen callback, the other slots are click requests.  A
\* document of the catalog has its title and topic beside the two counters.
\* ------------------------------------------------------------------------
\* sampleEvents of the app.listen callback
sampleEvents ==
    [e \in SampleEventIds |->
        [title |-> IF e = "event-1" THEN "Introduction to React Hooks"
                   ELSE IF e = "event-2" THEN "Data Science Fundamentals"
                   ELSE "Product Design Workshop",
         topic |-> IF e = "event-1" THEN "Development"
                   ELSE IF e = "event-2" THEN "Data" ELSE "Design",
         savedCount |-> 0, clickCount |-> 0]]

\* req.body.eventTitle and req.body.eventTopic of a click: given, or absent
ClickAbouts == { <<"Clicked title", "Clicked topic">>, <<"", "">> }

CatalogSlot(pc, eventId, about, status) ==
    [pc |-> pc, eventId |-> eventId, about |-> about, status |-> status]

\* Event.insertMany(sampleEvents), ordered: the documents are inserted one
\* after the other up to the first that the unique index on eventId rejects
RECURSIVE insertMany(_, _)
insertMany(coll, ids) ==
    IF ids = <<>> \/ Head(ids) \in DOMAIN coll THEN coll
    ELSE insertMany([e \in DOMAIN coll \cup {Head(ids)} |->
                        IF e = Head(ids) THEN sampleEvents[e] ELSE coll[e]],
                    Tail(ids))

\* Event.findOneAndUpdate({ eventId }, { $inc: { clickCount: 1 }, $set: {
\* title: eventTitle || undefined, topic: eventTopic || undefined } },
\* { upsert: true }).  An undefined value of $set is dropped from the update
\* or stored as null, as the installed mongoose does (omitUndefined).
incClickSetUpsert(coll, eventId, about, omitUndefined) ==
    LET set(old, new) == IF new # "" THEN new
                         ELSE IF omitUndefined THEN old ELSE "null"
    IN  [e \in DOMAIN coll \cup {eventId} |->
            IF e # eventId THEN coll[e]
            ELSE IF e \in DOMAIN coll
            THEN [coll[e] EXCEPT !.clickCount = @ + 1,
                                 !.title = set(@, about[1]),
                                 !.topic = set(@, about[2])]
            ELSE [title |-> set("null", about[1]), topic |-> set("null", about[2]),
                  savedCount |-> 0, clickCount |-> 1]]

InitCatalog ==
    /\ authModule = "documents"
    /\ users = <<>>
    /\ events = <<>>
    /\ eventClicks = <<>>
    /\ last = [cur |-> NoRequest, prev |-> NoRequest, changed |-> FALSE]
    /\ reqs = [r \in 0..MaxReqs |->
                 IF r = 0 THEN CatalogSlot("count", "", <<"", "">>, 0)
                 ELSE CatalogSlot("idle", "", <<"", "">>, 0)]
    /\ file = initialData
    /\ fileReqs = [r \in 1..MaxReqs |-> FileIdle]
    /\ connected = TRUE
    /\ memoryStorage = emptyMemory
    /\ visits = <<>>
    /\ subscriptions = <<>>

\* const eventCount = await Event.countDocuments(); if (eventCount === 0)
SeedCount ==
    /\ reqs[0].pc = "count"
    /\ reqs' = [reqs EXCEPT ![0].pc = IF DOMAIN events = {} THEN "insert"
                                      ELSE "done"]
    /\ UNCHANGED <<authModule, users, events, eventClicks, last, fileVars,
                   dualVars, engageVars>>

\* await Event.insertMany(sampleEvents); a rejection is caught and logged
SeedInsert ==
    /\ reqs[0].pc = "insert"
    /\ events' = insertMany(events, <<"event-1", "event-2", "event-3">>)
    /\ reqs' = [reqs EXCEPT ![0].pc = "done"]
    /\ UNCHANGED <<authModule, users, eventClicks, last, fileVars, dualVars,
                   engageVars>>

\* POST /api/events/click up to await eventClick.save()
ClickArrives(r, eventId, about) ==
    /\ reqs[r].pc = "idle"
    /\ reqs' = [reqs EXCEPT ![r] =
          IF eventId = "" THEN CatalogSlot("done", eventId, about, 400)
          ELSE CatalogSlot("save", eventId, about, 0)]
    /\ UNCHANGED <<authModule, users, events, eventClicks, last, fileVars,
                   dualVars, engageVars>>

\* eventClick.save() resolves; up to await Event.findOneAndUpdate(...)
ClickSaveRecord(r) ==
    /\ reqs[r].pc = "save"
    /\ eventClicks' = Append(eventClicks, [eventId |-> reqs[r].eventId, userId |-> 0])
    /\ reqs' = [reqs EXCEPT ![r].pc = "update"]
    /\ UNCHANGED <<authModule, users, events, last, fileVars, dualVars, engageVars>>

\* Event.findOneAndUpdate(...) resolves; the click is counted in
\* memoryStorage.eventClicks and the request is answered
ClickUpdateEvent(r, omitUndefined) ==
    /\ reqs[r].pc = "update"
    /\ events' = incClickSetUpsert(events, reqs[r].eventId, reqs[r].about,
                                   omitUndefined)
    /\ memoryStorage' = countClickInMemory(memoryStorage, reqs[r].eventId)
    /\ reqs' = [reqs EXCEPT ![r].pc = "done", ![r].status = 200]
    /\ UNCHANGED <<authModule, users, eventClicks, last, fileVars, connected,
                   engageVars>>

\* Event.findOneAndUpdate(...) rejects: catch (dbError) logs it; the click is
\* counted in memoryStorage.eventClicks and the request is answered
ClickUpdateFails(r) ==
    /\ reqs[r].pc = "update"
    /\ memoryStorage' = countClickInMemory(memoryStorage, reqs[r].eventId)
    /\ reqs' = [reqs EXCEPT ![r].pc = "done", ![r].status = 200]
    /\ UNCHANGED <<authModule, users, events, eventClicks, last, fileVars,
                   connected, engageVars>>

NextCatalog ==
    \/ SeedCount
    \/ SeedInsert
    \/ \E r \in 1..MaxReqs, eventId \in ClickEventIds, about \in ClickAbouts :
          ClickArrives(r, eventId, about)
    \/ \E r \in 1..MaxReqs : ClickSaveRecord(r)
    \/ \E r \in 1..MaxReqs, omitUndefined \in BOOLEAN : ClickUpdateEvent(r, omitUndefined)
    \/ \E r \in 1..MaxReqs : ClickUpdateFails(r)

SpecCatalog == InitCatalog /\ [][NextCatalog]_vars

\* C37: a click on an event that is in the catalog changes only its
\* clickCount: title, topic and savedCount of the document stay as they were
C37_ClickChangesOnlyClickCount ==
    [][\A r \in 1..MaxReqs :
          (/\ reqs[r].pc = "update" /\ reqs'[r].pc = "done"
           /\ reqs[r].eventId \in DOMAIN events)
          => LET e == reqs[r].eventId IN
             /\ events'[e].title = events[e].title
             /\ events'[e].topic = events[e].topic
             /\ events'[e].savedCount = events[e].savedCount]_vars

\* C38: when no click is between its writes, the clickCount of every event is
\* the number of click records of the event, and so is the count held in
\* memoryStorage
C38_ClickCountMatchesLog ==
    (\A r \in 1..MaxReqs : reqs[r].pc \in {"idle", "done"}) =>
        \A e \in ClickEventIds \ {""} :
            LET records == Cardinality({i \in 1..Len(eventClicks) :
                                           eventClicks[i].eventId = e})
                durable == IF e \in DOMAIN events THEN events[e].clickCount ELSE 0
                memory == IF e \in DOMAIN memoryStorage.eventClicks
                          THEN memoryStorage.eventClicks[e] ELSE 0
            IN  durable = records /\ memory = durable

\* C39: once the seed check of the app.listen callback has completed, the
\* sample events event-1, event-2 and event-3 are in the catalog
C39_SeedCompletesCatalog ==
    reqs[0].pc = "done" => SampleEventIds \subseteq DOMAIN events


\* C40: subscribe and unsubscribe normalize the email identically: an
\* unsubscribe with an email that subscribe accepts, in whatever letter case
\* and with whatever surrounding blanks, is answered 200 and leaves the record
\* that subscribe keeps for that email inactive
C40_UnsubscribeFindsSubscribed ==
    (last.cur.op = "unsubscribe" /\ ~InvalidEmail(last.cur.email)) =>
        /\ last.cur.status = 200
        /\ \A i \in 1..Len(last.cur.before) :
              last.cur.before[i].email = cleanEmailOf(last.cur.email) =>
                  /\ ~subscriptions[i].isActive
                  /\ subscriptions[i].unsubscribedAt = "date"

\* an unsubscribe with an upper-case email followed by a blank deactivated the
\* active record that subscribe had created for it
C40_Witness ==
    /\ last.cur.op = "unsubscribe" /\ last.cur.status = 200
    /\ last.cur.email = <<"A", "@", "x", " ">>
    /\ \E i \in 1..Len(last.cur.before) :
          /\ last.cur.before[i].email = <<"a", "@", "x">>
          /\ last.cur.before[i].isActive
          /\ ~subscriptions[i].isActive

====
